---- MODULE Spec2Model ----
\* A model of Router.fillListingsTx and Router.fillBidsTx (the order-filling
\* router of the SDK): the request batch, the options, the answers of the
\* external services, and the position of the call between its awaits.
\* Positions in the details array are 1-based here (index i of the code is
\* position i + 1).
EXTENDS Integers, Sequences, FiniteSets, TLC

\* Largest number of orders in one request batch.
MaxOrders == 2

VARIABLES
    call,            \* "listings" (fillListingsTx) or "bids" (fillBidsTx)
    request,         \* the details array as the caller passed it
    details,         \* the details array as the call sees it (overridden in place)
    buyInCurrency,   \* fillListingsTx parameter
    options,         \* the options parameter
    fetchOk,         \* per order: does its external fetch (order fetcher, X2Y2 input, ZeroExV4 release) succeed
    blurResponse,    \* the answer of the Blur call-data request ([ok, calldata])
    pc,              \* position of the call
    cursor,          \* loop index of fillBidsTx step 2
    success,         \* the success array of the call
    txs,             \* the txs array of fillListingsTx
    executions,      \* router executions built so far
    swapDetails,     \* swap requirements recorded with the executions
    orderIndexes,    \* order indexes handled by the router transaction
    approvals,       \* approvals collected so far
    permitItems,     \* permit items collected so far
    successfulSwapExecutions,              \* swap executions generated so far
    unsuccessfulDependentExecutionIndexes, \* positions of the executions that depend on a failed swap
    failedPools,     \* the pools (positions in pool iteration order) the swap provider has no route for
    result,          \* "pending", "returned" or "thrown"
    ret,             \* the returned bundle
    now,             \* Date.now() while the call runs, in milliseconds
    earlier,         \* what an earlier call with the same arguments ended with
    query,           \* the validated query of a user-tokens request
    balances,        \* the balances of the user, each joined with its token and collection
    sql,             \* the collection filters and query parameters the request built
    userTokens,      \* the rows the base query of the request returned
    response,        \* what the user-tokens request answers
    pages,           \* the tokens answered on the pages the client already followed
    queue,           \* the jobs waiting in refresh-activities-token-metadata-queue
    redis,           \* the keys held by redis
    db,              \* the collections and tokens tables the worker reads
    lastRun,         \* what the last run of the worker did
    kafka,           \* the change events of indexer.public.collections not yet handled
    websocketEvents  \* the events handed to the websocket event router

vars == <<call, request, details, buyInCurrency, options, fetchOk, blurResponse, pc,
          cursor, success, txs, executions, swapDetails, orderIndexes, approvals,
          permitItems, successfulSwapExecutions, unsuccessfulDependentExecutionIndexes,
          failedPools, result, ret, now, earlier, query, balances, sql, userTokens,
          response, pages, queue, redis, db, lastRun, kafka, websocketEvents>>

\* The state of the job worker and of the change-event handler
jobVars == <<queue, redis, db, lastRun, kafka, websocketEvents>>

\* The state of the router calls
routerVars == <<call, request, details, buyInCurrency, options, fetchOk, blurResponse, pc,
                cursor, success, txs, executions, swapDetails, orderIndexes, approvals,
                permitItems, successfulSwapExecutions,
                unsuccessfulDependentExecutionIndexes, failedPools, result, ret, now,
                earlier>>

------------------------------------------------------------------------------
\* Generic helpers

Range(s) == {s[i] : i \in 1..Len(s)}

RECURSIVE SumSeq(_)
SumSeq(s) == IF s = <<>> THEN 0 ELSE Head(s) + SumSeq(Tail(s))

RECURSIVE Flatten(_)
Flatten(ss) == IF ss = <<>> THEN <<>> ELSE Head(ss) \o Flatten(Tail(ss))

\* The elements of a set of numbers, ascending
RECURSIVE SortedSeq(_)
SortedSeq(S) ==
    IF S = {} THEN <<>>
    ELSE LET m == CHOOSE x \in S : \A y \in S : x <= y
         IN <<m>> \o SortedSeq(S \ {m})

AllTrue(n) == [i \in 1..n |-> TRUE]
AllFalse(n) == [i \in 1..n |-> FALSE]

------------------------------------------------------------------------------
\* Currencies

Eth == "ETH"
Weth == "WETH"
Usdc == "USDC"

isETH(c) == c = Eth
isWETH(c) == c = Weth

AddressZero == "0x0"

------------------------------------------------------------------------------
\* Wall clock

\* Values of Date.now() (milliseconds) at which a call can run
Clock == {1000, 1500, 2000}

\* The instant of the calls that are not repeated
FirstInstant == CHOOSE t \in Clock : \A u \in Clock : t <= u

\* Math.floor(Date.now() / 1000) + 10 * 60
Deadline(t) == (t \div 1000) + 10 * 60

\* No earlier call was made
NoFirstCall == [made |-> FALSE]

------------------------------------------------------------------------------
\* Request batches

Listing(kind, source, contractKind, currency, price) ==
    [kind |-> kind, source |-> source, contractKind |-> contractKind,
     currency |-> currency, conduitKey |-> "conduit1", fees |-> <<>>,
     batchSigned |-> FALSE, cbOrderId |-> (kind = "zeroex-v4"), price |-> price]

\* A listing of a pool protocol (sudoswap pair, nftx pool): `prices` is
\* order.params.extra.prices and `orderPrice` is order.params.price
PoolListing(kind, pool, prices, orderPrice) ==
    Listing(kind, "other", "erc721", Eth, prices[1])
        @@ [pool |-> pool, prices |-> prices, orderPrice |-> orderPrice]

\* The listings a batch is drawn from.
ListingOrders ==
    { Listing("universe", "other", "erc721", Eth, 7),
      Listing("blur", "blur.io", "erc721", Eth, 8),
      Listing("seaport", "opensea.io", "erc721", Eth, 10),
      Listing("seaport", "other", "erc721", Usdc, 11),
      Listing("seaport", "blur.io", "erc721", Eth, 12),
      Listing("seaport-partial", "opensea.io", "erc721", Eth, 13),
      Listing("seaport-v1.4-partial", "other", "erc1155", Eth, 14),
      Listing("x2y2", "x2y2.io", "erc721", Eth, 15),
      Listing("zeroex-v4", "other", "erc721", Eth, 16),
      Listing("looks-rare", "looksrare.org", "erc721", Eth, 17) }

\* Kinds whose handling awaits an external service for the order
FetchingKinds == {"seaport-partial", "seaport-v1.4-partial", "x2y2", "zeroex-v4"}

Fee(recipient, amount) == [recipient |-> recipient, amount |-> amount]

ListingOptions ==
    { [partial |-> p, relayer |-> r, forceRouter |-> f, globalFees |-> g, forcePermit |-> FALSE] :
        p \in BOOLEAN, r \in {"none", "relayer"}, f \in BOOLEAN,
        g \in {<<>>, <<Fee("feeRecipient", 5)>>} }

\* Option sets of the runs explored: one of relayer / forceRouter / globalFees at a time
ExploredListingOptions ==
    { o \in ListingOptions :
        Cardinality({x \in {1, 2, 3} :
            \/ x = 1 /\ o.relayer # "none"
            \/ x = 2 /\ o.forceRouter
            \/ x = 3 /\ o.globalFees # <<>>}) <= 1 }

NoBlurResponse == [ok |-> FALSE, calldata |-> <<>>]

Batches(orders, n) == UNION {[1..k -> orders] : k \in 0..n}

\* A column, key or field without a value
null == [null |-> TRUE]

\* A value that was never set
undefined == [undefined |-> TRUE]

Text(v) == [null |-> FALSE, text |-> v]

\* No user-tokens request is being served
NoQuery == [route |-> "none"]

NoResponse == [answered |-> FALSE]

NoSql == [built |-> FALSE]

\* The keys of redis the jobs and handlers use
RedisKeys ==
    {"collection-day-30-rank:contract", "collectionCache:v1:a", "collectionCache:v1:b"}

NoKeys == [k \in RedisKeys |-> null]

NoTables == [collections |-> <<>>, tokens |-> <<>>]

NoRun == [runs |-> 0]

\* No user-tokens request is being served
UserTokensIdle ==
    /\ query = NoQuery
    /\ balances = <<>>
    /\ sql = NoSql
    /\ userTokens = <<>>
    /\ response = NoResponse
    /\ pages = <<>>

\* No job is queued and no change event is waiting
JobsIdle ==
    /\ queue = <<>>
    /\ redis = NoKeys
    /\ db = NoTables
    /\ lastRun = NoRun
    /\ kafka = <<>>
    /\ websocketEvents = <<>>

\* Fetch outcomes: only orders of a fetching kind can fail
FetchOutcomes(d) ==
    { f \in [1..Len(d) -> BOOLEAN] :
        \A i \in 1..Len(d) : d[i].kind \notin FetchingKinds => f[i] }

InitRouter ==
    /\ details = request
    /\ blurResponse = NoBlurResponse
    /\ pc = "start"
    /\ cursor = 1
    /\ success = <<>>
    /\ txs = <<>>
    /\ executions = <<>>
    /\ swapDetails = <<>>
    /\ orderIndexes = <<>>
    /\ approvals = <<>>
    /\ permitItems = <<>>
    /\ successfulSwapExecutions = <<>>
    /\ unsuccessfulDependentExecutionIndexes = {}
    /\ failedPools = {}
    /\ earlier = NoFirstCall
    /\ result = "pending"
    /\ ret = [txs |-> <<>>, success |-> <<>>]

InitCommon ==
    /\ InitRouter
    /\ UserTokensIdle
    /\ JobsIdle

InitListings ==
    /\ call = "listings"
    /\ request \in Batches(ListingOrders, MaxOrders)
    /\ buyInCurrency \in {Eth, Usdc}
    /\ options \in ExploredListingOptions
    /\ fetchOk \in FetchOutcomes(request)
    /\ now = FirstInstant
    /\ InitCommon

------------------------------------------------------------------------------
\* Outcomes of the call

Return(bundle) ==
    /\ result' = "returned"
    /\ ret' = bundle
    /\ pc' = "done"

Throw ==
    /\ result' = "thrown"
    /\ pc' = "done"
    /\ UNCHANGED ret

Tx(kind, to, apps, permits, execs, indexes, fills, value) ==
    [kind |-> kind, to |-> to, approvals |-> apps, permits |-> permits,
     executions |-> execs, orderIndexes |-> indexes, fills |-> fills, value |-> value]

FTApproval(currency, owner, operator) ==
    [currency |-> currency, owner |-> owner, operator |-> operator]

------------------------------------------------------------------------------
\* fillListingsTx: protocols without a router module

NoRouterListingKinds ==
    {"universe", "cryptopunks", "infinity", "flow", "manifold", "superrare"}

\* Kinds of the no-router protocols that approve the exchange for a non-ETH currency
ApprovingNoRouterKinds == {"universe", "infinity", "flow"}

HasKind(d, kinds) == \E i \in 1..Len(d) : d[i].kind \in kinds

NoRouterListings_routed(d, o) ==
    IF ~HasKind(d, NoRouterListingKinds) \/ Len(d) = 1 THEN "continue"
    ELSE "throw"

NoRouterListings_partial(d, o) ==
    IF ~HasKind(d, NoRouterListingKinds) \/ (o.partial /\ Len(d) > 1) THEN "continue"
    ELSE IF o.relayer # "none" THEN "throw"
    ELSE IF Len(d) > 1 THEN "throw"
    ELSE IF Len(o.globalFees) > 0 THEN "throw"
    ELSE "return"

\* "continue" when no such order is in the batch, else "throw" or "return"
NoRouterListings(d, o) ==
    IF ~HasKind(d, NoRouterListingKinds) THEN "continue"
    ELSE IF o.relayer # "none" THEN "throw"
    ELSE IF Len(d) > 1 THEN "throw"
    ELSE IF Len(o.globalFees) > 0 THEN "throw"
    ELSE "return"

DirectListingBundle(d) ==
    [txs |-> << Tx("direct", "exchange",
                   IF d[1].kind \in ApprovingNoRouterKinds /\ ~isETH(d[1].currency)
                   THEN <<FTApproval(d[1].currency, "taker", "exchange")>> ELSE <<>>,
                   <<>>, <<>>, <<1>>, {1}, 0) >>,
     success |-> <<TRUE>>]

FillListingsNoRouter ==
    /\ call = "listings" /\ pc = "start"
    /\ LET outcome == NoRouterListings(details, options) IN
        CASE outcome = "throw" -> Throw
          [] outcome = "return" -> Return(DirectListingBundle(details))
          [] OTHER -> pc' = "resolve" /\ UNCHANGED <<result, ret>>
    /\ UNCHANGED <<jobVars, balances, sql, pages, query, userTokens, response, now, earlier, call, request, details, buyInCurrency, options, fetchOk, blurResponse,
                   cursor, success, txs, executions, swapDetails, orderIndexes,
                   approvals, permitItems, successfulSwapExecutions,
                   unsuccessfulDependentExecutionIndexes, failedPools>>

------------------------------------------------------------------------------
\* fillListingsTx: partial seaport orders

\* The kind a partial kind resolves to
FullKind(kind) ==
    CASE kind = "seaport-partial" -> "seaport"
      [] kind = "seaport-v1.4-partial" -> "seaport-v1.4"
      [] OTHER -> kind

PartialKinds == {"seaport-partial", "seaport-v1.4-partial"}

\* Does a branch of the Promise.all over `kind` orders throw
ResolveThrows(d, f, o, kind) ==
    \E i \in 1..Len(d) : d[i].kind = kind /\ ~f[i] /\ ~o.partial

ResolvePartial_cancelled(d, f, kind) ==
    [i \in 1..Len(d) |->
        IF d[i].kind = kind /\ \A j \in 1..Len(d) : d[j].kind = kind => f[j]
        THEN [d[i] EXCEPT !.kind = FullKind(kind)] ELSE d[i]]

ResolvePartial_always(d, f, kind) ==
    [i \in 1..Len(d) |->
        IF d[i].kind = kind THEN [d[i] EXCEPT !.kind = FullKind(kind)] ELSE d[i]]

\* The details array after the Promise.all over `kind` orders
ResolvePartial(d, f, kind) ==
    [i \in 1..Len(d) |->
        IF d[i].kind = kind /\ f[i] THEN [d[i] EXCEPT !.kind = FullKind(kind)] ELSE d[i]]

FillListingsResolve ==
    /\ call = "listings" /\ pc = "resolve"
    /\ LET d1 == ResolvePartial(details, fetchOk, "seaport-partial")
           d2 == ResolvePartial(d1, fetchOk, "seaport-v1.4-partial")
       IN IF ResolveThrows(details, fetchOk, options, "seaport-partial")
          THEN Throw /\ details' = details /\ UNCHANGED success
          ELSE IF ResolveThrows(d1, fetchOk, options, "seaport-v1.4-partial")
          THEN Throw /\ details' = d1 /\ UNCHANGED success
          ELSE /\ details' = d2
               /\ success' = AllFalse(Len(details))
               /\ pc' = "blur"
               /\ UNCHANGED <<result, ret>>
    /\ UNCHANGED <<jobVars, balances, sql, pages, query, userTokens, response, now, earlier, call, request, buyInCurrency, options, fetchOk, blurResponse,
                   cursor, txs, executions, swapDetails, orderIndexes,
                   approvals, permitItems, successfulSwapExecutions,
                   unsuccessfulDependentExecutionIndexes, failedPools>>

------------------------------------------------------------------------------
\* fillListingsTx: Blur-compatible listings
\* The (contract, tokenId) pair of the listing at position i is modelled by i:
\* the listings of a batch are for distinct tokens.

BlurSources == {"blur.io", "opensea.io", "looksrare.org", "x2y2.io"}

\* Positions (originalIndex) of the Blur-compatible listings
blurCompatibleListings(d) ==
    IF \E i \in 1..Len(d) : d[i].source = "blur.io"
    THEN SortedSeq({i \in 1..Len(d) :
            d[i].contractKind = "erc721" /\ d[i].source \in BlurSources})
    ELSE <<>>

\* Entries (one per contract) a Blur answer can have
BlurEntries == {1, 2}

\* The paths of an answer that puts listing i in entry f[i] (0: in no entry)
BlurPaths(f) ==
    LET path(e) == SortedSeq({i \in DOMAIN f : f[i] = e})
    IN SelectSeq([e \in 1..Cardinality(BlurEntries) |-> path(e)], LAMBDA p : p # <<>>)

\* The answers of the order fetcher to a request for the listings `compat`
BlurResponses(compat) ==
    {NoBlurResponse} \cup
    { [ok |-> TRUE, calldata |-> BlurPaths(f)] :
        f \in [Range(compat) -> {0} \cup BlurEntries] }

\* orderIndexes of a transaction pushed by the Blur step
BlurTxOrderIndexes(successful) == <<>>

BlurAccepts_any(d, successful) == successful # <<>>

\* Does the step go ahead with the call data of an entry: its path holds at
\* least one Blur listing
BlurAccepts(d, successful) ==
    \E k \in 1..Len(successful) : d[successful[k]].source = "blur.io"

\* The loop over Object.values(result): success and txs after it
RECURSIVE BlurMark(_, _, _, _, _)
BlurMark(calldata, d, compat, succ, ts) ==
    IF calldata = <<>> THEN [success |-> succ, txs |-> ts]
    ELSE LET successful == SelectSeq(Head(calldata), LAMBDA t : t \in Range(compat))
             hasBlur == BlurAccepts(d, successful)
         IN IF hasBlur
            THEN BlurMark(Tail(calldata), d, compat,
                          [i \in 1..Len(succ) |-> succ[i] \/ i \in Range(successful)],
                          Append(ts, Tx("blur", "blur", <<>>, <<>>, <<>>,
                                        BlurTxOrderIndexes(successful), Range(successful), 0)))
            ELSE BlurMark(Tail(calldata), d, compat, succ, ts)

\* Is a Blur listing left for which no calldata was generated
BlurListingLeft(d, succ) == \E i \in 1..Len(d) : d[i].source = "blur.io" /\ ~succ[i]

BlurFailureThrows_never(d, succ, o) == FALSE

\* Does the test for unfilled Blur listings after the Blur step abort the call
BlurFailureThrows(d, succ, o) == BlurListingLeft(d, succ) /\ ~o.partial

\* Were all listings covered by Blur
AllCovered(d, succ) == \A i \in 1..Len(d) : succ[i]

FillListingsBlur ==
    /\ call = "listings" /\ pc = "blur"
    /\ LET compat == blurCompatibleListings(details) IN
       \E resp \in (IF compat = <<>> THEN {NoBlurResponse} ELSE BlurResponses(compat)) :
        /\ blurResponse' = resp
        /\ LET marked == IF compat # <<>> /\ resp.ok
                         THEN BlurMark(resp.calldata, details, compat, success, txs)
                         ELSE [success |-> success, txs |-> txs]
           IN /\ success' = marked.success
              /\ txs' = marked.txs
              /\ IF compat # <<>> /\ ~resp.ok /\ ~options.partial THEN Throw
                 ELSE IF BlurFailureThrows(details, marked.success, options) THEN Throw
                 ELSE IF AllCovered(details, marked.success)
                 THEN Return([txs |-> marked.txs, success |-> marked.success])
                 ELSE pc' = "fast" /\ UNCHANGED <<result, ret>>
    /\ UNCHANGED <<jobVars, balances, sql, pages, query, userTokens, response, now, earlier, call, request, details, buyInCurrency, options, fetchOk,
                   cursor, executions, swapDetails, orderIndexes,
                   approvals, permitItems, successfulSwapExecutions,
                   unsuccessfulDependentExecutionIndexes, failedPools>>

------------------------------------------------------------------------------
\* fillListingsTx: filling on Seaport directly

relayer_taker(o) == "taker"

\* options.relayer ?? taker
relayer(o) == IF o.relayer # "none" THEN o.relayer ELSE "taker"

\* The condition of the direct fill on the exchange of `kind`
SeaportDirectFill(d, buyIn, o, kind) ==
    /\ \A i \in 1..Len(d) :
        /\ d[i].kind = kind
        /\ buyIn = d[i].currency
        /\ d[i].currency = d[1].currency
        /\ d[i].conduitKey = d[1].conduitKey
        /\ Len(d[i].fees) = 0
    /\ Len(o.globalFees) = 0
    /\ ~o.forceRouter
    /\ o.relayer = "none"

SeaportDirectSuccess_single(d) == <<TRUE>>

\* The success array returned by the direct fill
SeaportDirectSuccess(d) == AllTrue(Len(d))

SeaportDirectBundle_noValue(d, kind) ==
    [txs |-> << Tx(kind, "exchange",
                   IF ~isETH(d[1].currency)
                   THEN <<FTApproval(d[1].currency, "taker", d[1].conduitKey)>> ELSE <<>>,
                   <<>>, <<>>, [i \in 1..Len(d) |-> i], 1..Len(d), 0) >>,
     success |-> SeaportDirectSuccess(d)]

\* The bundle returned by the direct fill
SeaportDirectBundle(d, kind) ==
    [txs |-> << Tx(kind, "exchange",
                   IF ~isETH(d[1].currency)
                   THEN <<FTApproval(d[1].currency, "taker", d[1].conduitKey)>> ELSE <<>>,
                   <<>>, <<>>, [i \in 1..Len(d) |-> i], 1..Len(d),
                   IF isETH(d[1].currency)
                   THEN SumSeq([i \in 1..Len(d) |-> d[i].price]) ELSE 0) >>,
     success |-> SeaportDirectSuccess(d)]

FillListingsDirect ==
    /\ call = "listings" /\ pc = "fast"
    /\ IF SeaportDirectFill(details, buyInCurrency, options, "seaport")
       THEN Return(SeaportDirectBundle(details, "seaport"))
       ELSE IF SeaportDirectFill(details, buyInCurrency, options, "seaport-v1.4")
       THEN Return(SeaportDirectBundle(details, "seaport-v1.4"))
       ELSE pc' = "build" /\ UNCHANGED <<result, ret>>
    /\ UNCHANGED <<jobVars, balances, sql, pages, query, userTokens, response, now, earlier, call, request, details, buyInCurrency, options, fetchOk, blurResponse,
                   cursor, success, txs, executions, swapDetails, orderIndexes,
                   approvals, permitItems, successfulSwapExecutions,
                   unsuccessfulDependentExecutionIndexes, failedPools>>

------------------------------------------------------------------------------
\* fillListingsTx: fees, partitions and router executions

RECURSIVE Distinct(_)
Distinct(s) ==
    IF s = <<>> THEN <<>>
    ELSE <<Head(s)>> \o Distinct(SelectSeq(Tail(s), LAMBDA x : x # Head(s)))

FeeCounts_amountOnly(fee) == fee.amount > 0

\* Is a fee entry counted (zero amounts and null recipients are skipped)
FeeCounts(fee) == fee.amount > 0 /\ fee.recipient # AddressZero

getFees_unprorated(d, o, own) ==
    SelectSeq(o.globalFees, FeeCounts)
       \o Flatten([k \in 1..Len(own) |-> SelectSeq(d[own[k]].fees, FeeCounts)])

\* The fees of the execution filling the listings at positions `own`
getFees(d, o, own) ==
    LET global == SelectSeq(o.globalFees, FeeCounts)
    IN [k \in 1..Len(global) |->
            Fee(global[k].recipient, (global[k].amount * Len(own)) \div Len(d))]
       \o Flatten([k \in 1..Len(own) |-> SelectSeq(d[own[k]].fees, FeeCounts)])

FeeAmount(fees) == SumSeq([k \in 1..Len(fees) |-> fees[k].amount])

\* Protocols whose price depends on how many listings of the pool are bought
PoolKinds == {"sudoswap", "nftx"}

\* The position of listing i among the listings of `orders` from its pool
PoolRank(d, orders, i) ==
    Cardinality({j \in Range(orders) : d[j].pool = d[i].pool /\ j <= i})

\* The price the listing at position i is matched at
MatchingPrice(d, orders, i) ==
    IF d[i].kind \in PoolKinds THEN d[i].prices[PoolRank(d, orders, i)] ELSE d[i].price

\* Sum of the native prices of the listings at positions `orders`
Price(d, orders) == SumSeq([k \in 1..Len(orders) |-> MatchingPrice(d, orders, orders[k])])

\* The array a listing is pushed to ("none": the default branch of the switch)
PartitionName(order) ==
    CASE order.kind = "element" ->
            (IF order.batchSigned THEN "elementErc721V2"
             ELSE IF order.contractKind = "erc721" THEN "elementErc721"
             ELSE "elementErc1155")
      [] order.kind = "foundation" -> "foundation"
      [] order.kind = "looks-rare" -> "looksRare"
      [] order.kind = "seaport" -> "seaport"
      [] order.kind = "seaport-v1.4" -> "seaportV14"
      [] order.kind = "sudoswap" -> "sudoswap"
      [] order.kind = "x2y2" -> "x2y2"
      [] order.kind = "zeroex-v4" ->
            (IF order.contractKind = "erc721" THEN "zeroexV4Erc721" ELSE "zeroexV4Erc1155")
      [] order.kind = "zora" -> "zora"
      [] order.kind = "nftx" -> "nftx"
      [] order.kind = "rarible" -> "rarible"
      [] OTHER -> "none"

\* Only seaport and seaport-v1.4 listings are split by currency
PerCurrencyPartitions == {"seaport", "seaportV14"}

PartitionCurrency(order) ==
    IF PartitionName(order) \in PerCurrencyPartitions THEN order.currency ELSE Eth

\* The order in which the partitions are handled
PartitionOrder ==
    << "elementErc721", "elementErc721V2", "elementErc1155", "foundation", "looksRare",
       "seaport", "seaportV14", "sudoswap", "nftx", "x2y2", "zeroexV4Erc721",
       "zeroexV4Erc1155", "zora", "rarible" >>

Partitioned_filledToo(d, succ, i) == PartitionName(d[i]) # "none"

\* Is the listing at position i pushed to a partition
Partitioned(d, succ, i) == ~succ[i] /\ PartitionName(d[i]) # "none"

\* The partitions [name, currency, members], in handling order
SplitListings(d, succ) ==
    Flatten([n \in 1..Len(PartitionOrder) |->
        LET members == SortedSeq({i \in 1..Len(d) :
                            Partitioned(d, succ, i) /\ PartitionName(d[i]) = PartitionOrder[n]})
            keys == Distinct([k \in 1..Len(members) |-> PartitionCurrency(d[members[k]])])
        IN [k \in 1..Len(keys) |->
              [name |-> PartitionOrder[n], currency |-> keys[k],
               members |-> SelectSeq(members,
                              LAMBDA i : PartitionCurrency(d[i]) = keys[k])]]])

Module(name) ==
    CASE name \in {"elementErc721", "elementErc721V2", "elementErc1155"} -> "elementModule"
      [] name \in {"zeroexV4Erc721", "zeroexV4Erc1155"} -> "zeroExV4Module"
      [] OTHER -> name \o "Module"

Execution(module, orders, amount, fees, value) ==
    [module |-> module, orders |-> orders, amount |-> amount, fees |-> fees,
     value |-> value, swap |-> FALSE,
     deadline |-> IF module = "sudoswapModule" THEN Deadline(now) ELSE 0]

SwapDetail(tokenIn, tokenOut, tokenOutAmount, recipient, members, executionIndex) ==
    [tokenIn |-> tokenIn, tokenOut |-> tokenOut, tokenOutAmount |-> tokenOutAmount,
     recipient |-> recipient, details |-> members, executionIndex |-> executionIndex]

MarkSuccess(succ, handled) == [i \in 1..Len(succ) |-> succ[i] \/ i \in Range(handled)]

\* One execution for a partition: `orders` are encoded, `priced` are summed into
\* the price, the fees are those of `own`, `handled` are marked successful and
\* `indexed` are pushed to orderIndexes
PushExecution(acc, d, buyIn, o, part, orders, priced, own, handled, indexed) ==
    LET fees == getFees(d, o, own)
        price == Price(d, priced)
        totalPrice == price + FeeAmount(fees)
        value == IF part.name \in PerCurrencyPartitions
                 THEN (IF isETH(buyIn) /\ isETH(part.currency) THEN totalPrice ELSE 0)
                 ELSE totalPrice
    IN [acc EXCEPT
          !.executions = Append(@, Execution(Module(part.name), orders, price, fees, value)),
          !.swapDetails = Append(@, SwapDetail(buyIn, part.currency, totalPrice,
                                               Module(part.name), part.members,
                                               Len(acc.executions) + 1)),
          !.success = MarkSuccess(@, handled),
          !.orderIndexes = @ \o indexed]

\* Partitions whose orders are all encoded, paid and marked
HandleListings(acc, d, buyIn, o, part) ==
    PushExecution(acc, d, buyIn, o, part,
                  part.members, part.members, part.members, part.members, part.members)

\* Order indexes the X2Y2 handler pushes for the listings it marked
X2Y2OrderIndexes(handled) == <<>>

\* X2Y2 listings: the input of every order is fetched from the X2Y2 API
HandleX2Y2(acc, d, f, buyIn, o, part) ==
    LET fetched == SelectSeq(part.members, LAMBDA i : f[i])
    IN IF Len(part.members) = 1
       THEN (IF fetched # <<>>
             THEN PushExecution(acc, d, buyIn, o, part, fetched, part.members,
                                part.members, fetched, X2Y2OrderIndexes(fetched))
             ELSE [acc EXCEPT !.throws = ~o.partial])
       ELSE (IF fetched # <<>>
             THEN PushExecution(acc, d, buyIn, o, part, fetched, part.members,
                                part.members, fetched, X2Y2OrderIndexes(fetched))
             ELSE acc)

\* Listings the ZeroExV4 handler marks as successfully handled
ZeroExV4Handled(members, released) == members

\* ZeroExV4 listings: the signature of every order with a cbOrderId is released
HandleZeroExV4(acc, d, f, buyIn, o, part) ==
    LET unsuccessful == {i \in Range(part.members) : d[i].cbOrderId /\ ~f[i]}
        released == SelectSeq(part.members, LAMBDA i : i \notin unsuccessful)
    IN IF unsuccessful # {} /\ ~o.partial THEN [acc EXCEPT !.throws = TRUE]
       ELSE IF released # <<>>
       THEN PushExecution(acc, d, buyIn, o, part, released, released, part.members,
                          ZeroExV4Handled(part.members, released),
                          ZeroExV4Handled(part.members, released))
       ELSE acc

HandlePartition(acc, d, f, buyIn, o, part) ==
    IF acc.throws THEN acc
    ELSE CASE part.name = "x2y2" -> HandleX2Y2(acc, d, f, buyIn, o, part)
           [] part.name \in {"zeroexV4Erc721", "zeroexV4Erc1155"} ->
                HandleZeroExV4(acc, d, f, buyIn, o, part)
           [] OTHER -> HandleListings(acc, d, buyIn, o, part)

RECURSIVE GenerateExecutions(_, _, _, _, _, _)
GenerateExecutions(acc, d, f, buyIn, o, parts) ==
    IF parts = <<>> THEN acc
    ELSE GenerateExecutions(HandlePartition(acc, d, f, buyIn, o, Head(parts)),
                            d, f, buyIn, o, Tail(parts))

\* The details after the NFTX handler updated the price of its orders in place
UpdateNftxPrices(d, parts) ==
    [i \in 1..Len(d) |->
        IF \E p \in 1..Len(parts) : parts[p].name = "nftx" /\ i \in Range(parts[p].members)
        THEN LET part == parts[CHOOSE p \in 1..Len(parts) : parts[p].name = "nftx"]
             IN [d[i] EXCEPT !.orderPrice = d[i].prices[PoolRank(d, part.members, i)]]
        ELSE d[i]]

FillListingsExecutions ==
    /\ call = "listings" /\ pc = "build"
    /\ details' = UpdateNftxPrices(details, SplitListings(details, success))
    /\ LET acc == GenerateExecutions(
                    [executions |-> <<>>, swapDetails |-> <<>>, success |-> success,
                     orderIndexes |-> <<>>, throws |-> FALSE],
                    details, fetchOk, buyInCurrency, options,
                    SplitListings(details, success))
       IN IF acc.throws
          THEN Throw /\ UNCHANGED <<executions, swapDetails, success, orderIndexes>>
          ELSE /\ executions' = acc.executions
               /\ swapDetails' = acc.swapDetails
               /\ success' = acc.success
               /\ orderIndexes' = acc.orderIndexes
               /\ pc' = "swap"
               /\ UNCHANGED <<result, ret>>
    /\ UNCHANGED <<jobVars, balances, sql, pages, query, userTokens, response, now, earlier, call, request, buyInCurrency, options, fetchOk, blurResponse,
                   cursor, txs, approvals, permitItems, successfulSwapExecutions,
                   unsuccessfulDependentExecutionIndexes, failedPools>>

------------------------------------------------------------------------------
\* fillListingsTx: swaps

SwapPool_normalized(s) ==
    << IF isETH(s.tokenIn) THEN Weth ELSE s.tokenIn,
       IF isETH(s.tokenOut) THEN Weth ELSE s.tokenOut >>

\* The pool a swap detail is aggregated into
SwapPool(s) ==
    IF isETH(s.tokenIn) /\ isWETH(s.tokenOut) THEN <<s.tokenIn, s.tokenOut>>
    ELSE IF isWETH(s.tokenIn) /\ isETH(s.tokenOut) THEN <<s.tokenIn, s.tokenOut>>
    ELSE << IF isETH(s.tokenIn) THEN Weth ELSE s.tokenIn,
            IF isETH(s.tokenOut) THEN Weth ELSE s.tokenOut >>

\* Per pool, in insertion order, the positions of its swap details
aggregatedSwapDetails(sds) ==
    LET keys == Distinct([k \in 1..Len(sds) |-> SwapPool(sds[k])])
    IN [p \in 1..Len(keys) |->
          SortedSeq({k \in 1..Len(sds) : SwapPool(sds[k]) = keys[p]})]

SwapNeeded_always(sds, pool) == TRUE

\* Is generateSwapExecutions called for the pool
SwapNeeded(sds, pool) == sds[pool[1]].tokenIn # sds[pool[1]].tokenOut

totalAmountOut(sds, pool) == SumSeq([k \in 1..Len(pool) |-> sds[pool[k]].tokenOutAmount])

\* The amount in quoted by the swap provider for an amount out
QuotedAmountIn(amountOut) == amountOut + 1

SwapExecution(tokenIn, amountIn) ==
    [module |-> "swapModule", orders |-> <<>>, amount |-> amountIn, fees |-> <<>>,
     value |-> IF isETH(tokenIn) THEN amountIn ELSE 0, swap |-> TRUE, deadline |-> 0]

PermitItem(from, to, token, amount) ==
    [from |-> from, to |-> to, token |-> token, amount |-> amount]

SkipDependentExecutions_firstOnly(acc, sds, pool) ==
    [acc EXCEPT
       !.success = [i \in 1..Len(acc.success) |->
                      acc.success[i] /\ i \notin Range(sds[pool[1]].details)],
       !.unsuccessful = @ \cup {sds[pool[1]].executionIndex}]

\* The catch branch of a pool in partial mode: the dependent fills are skipped
SkipDependentExecutions(acc, sds, pool) ==
    [acc EXCEPT
       !.success = [i \in 1..Len(acc.success) |->
                      acc.success[i] /\ ~\E k \in Range(pool) : i \in Range(sds[k].details)],
       !.unsuccessful = @ \cup {sds[k].executionIndex : k \in Range(pool)}]

\* The try branch of a pool
SwapPoolSucceeds(acc, sds, pool, o) ==
    LET tokenIn == sds[pool[1]].tokenIn
        tokenOut == sds[pool[1]].tokenOut
        inAmount == IF SwapNeeded(sds, pool)
                    THEN QuotedAmountIn(totalAmountOut(sds, pool))
                    ELSE totalAmountOut(sds, pool)
        withSwap == IF SwapNeeded(sds, pool)
                    THEN [acc EXCEPT !.swapExecutions = Append(@, SwapExecution(tokenIn, inAmount))]
                    ELSE acc
    IN IF isETH(tokenIn) THEN withSwap
       ELSE [withSwap EXCEPT
               !.approvals = Append(@, FTApproval(tokenIn, relayer(o), "permit2")),
               !.permitItems = @ \o
                   (IF SwapNeeded(sds, pool)
                    THEN <<PermitItem(relayer(o), "swapModule", tokenIn, inAmount)>>
                    ELSE [k \in 1..Len(pool) |->
                            PermitItem(relayer(o), sds[pool[k]].recipient, tokenIn,
                                       sds[pool[k]].tokenOutAmount)])]

\* The loop over the pools; `failing` are the pools the swap provider has no route for
RECURSIVE HandleSwaps(_, _, _, _, _, _)
HandleSwaps(acc, sds, pools, p, failing, o) ==
    IF p > Len(pools) \/ acc.throws THEN acc
    ELSE HandleSwaps(
            IF p \in failing
            THEN (IF ~o.partial THEN [acc EXCEPT !.throws = TRUE]
                  ELSE SkipDependentExecutions(acc, sds, pools[p]))
            ELSE SwapPoolSucceeds(acc, sds, pools[p], o),
            sds, pools, p + 1, failing, o)

FillListingsSwaps ==
    /\ call = "listings" /\ pc = "swap"
    /\ LET pools == aggregatedSwapDetails(swapDetails) IN
       \E failing \in SUBSET {p \in 1..Len(pools) : SwapNeeded(swapDetails, pools[p])} :
         LET acc == HandleSwaps(
                      [swapExecutions |-> <<>>, approvals |-> <<>>, permitItems |-> <<>>,
                       success |-> success, unsuccessful |-> {}, throws |-> FALSE],
                      swapDetails, pools, 1, failing, options)
         IN /\ failedPools' = failing
            /\ IF acc.throws
               THEN /\ Throw
                    /\ UNCHANGED <<success, approvals, permitItems, successfulSwapExecutions,
                                   unsuccessfulDependentExecutionIndexes>>
               ELSE /\ success' = acc.success
                    /\ approvals' = acc.approvals
                    /\ permitItems' = acc.permitItems
                    /\ successfulSwapExecutions' = acc.swapExecutions
                    /\ unsuccessfulDependentExecutionIndexes' = acc.unsuccessful
                    /\ pc' = "package"
                    /\ UNCHANGED <<result, ret>>
    /\ UNCHANGED <<jobVars, balances, sql, pages, query, userTokens, response, now, earlier, call, request, details, buyInCurrency, options, fetchOk, blurResponse,
                   cursor, txs, executions, swapDetails, orderIndexes>>

------------------------------------------------------------------------------
\* fillListingsTx: the router transaction

\* The executions left after those that depend on failed swaps are filtered out
FilterExecutions(execs, unsuccessful) ==
    LET kept == SortedSeq({k \in 1..Len(execs) : k \notin unsuccessful})
    IN [k \in 1..Len(kept) |-> execs[kept[k]]]

\* Positions of the orders encoded in a list of executions
Fills(execs) == UNION {Range(execs[k].orders) : k \in 1..Len(execs)}

RouterTx_fillsOnly(execs, apps, items, indexes, o) ==
    Tx("router", "router", apps,
       IF items # <<>> THEN << [currencies |-> [k \in 1..Len(items) |-> items[k].token],
                               items |-> items] >>
       ELSE <<>>,
       execs, indexes, Fills(execs),
       SumSeq([k \in 1..Len(execs) |-> IF execs[k].swap THEN 0 ELSE execs[k].value]))

\* The router transaction
RouterTx(execs, apps, items, indexes, o) ==
    Tx("router", "router", apps,
       IF items # <<>> THEN << [currencies |-> [k \in 1..Len(items) |-> items[k].token],
                               items |-> items] >>
       ELSE <<>>,
       execs, indexes, Fills(execs), SumSeq([k \in 1..Len(execs) |-> execs[k].value]))

PrependSwaps_appended(swaps, fills) == fills \o swaps

\* The executions of the router transaction
PrependSwaps(swaps, fills) == swaps \o fills

NoTransactions_never(ts) == FALSE

\* Could no transaction be generated
NoTransactions(ts) == ts = <<>>

FillListingsPackage ==
    /\ call = "listings" /\ pc = "package"
    /\ LET filtered == FilterExecutions(executions, unsuccessfulDependentExecutionIndexes)
           final == IF filtered # <<>>
                    THEN PrependSwaps(successfulSwapExecutions, filtered)
                    ELSE filtered
           pushed == IF filtered # <<>>
                     THEN Append(txs, RouterTx(final, approvals, permitItems, orderIndexes, options))
                     ELSE txs
       IN /\ executions' = final
          /\ txs' = pushed
          /\ IF NoTransactions(pushed) THEN Throw
             ELSE Return([txs |-> pushed, success |-> success])
    /\ UNCHANGED <<jobVars, balances, sql, pages, query, userTokens, response, now, earlier, call, request, details, buyInCurrency, options, fetchOk, blurResponse,
                   cursor, success, swapDetails, orderIndexes, approvals, permitItems,
                   successfulSwapExecutions, unsuccessfulDependentExecutionIndexes,
                   failedPools>>

NextListings ==
    \/ FillListingsNoRouter
    \/ FillListingsResolve
    \/ FillListingsBlur
    \/ FillListingsDirect
    \/ FillListingsExecutions
    \/ FillListingsSwaps
    \/ FillListingsPackage

SpecListings == InitListings /\ [][NextListings]_vars

------------------------------------------------------------------------------
\* fillBidsTx

Bid(kind, contractKind, contract) ==
    [kind |-> kind, contractKind |-> contractKind, contract |-> contract,
     fees |-> <<>>, cbOrderId |-> (kind = "zeroex-v4")]

\* A bid of the nftx pool: `specificIds` is order.params.specificIds
NftxBid(contract, specificIds) ==
    Bid("nftx", "erc721", contract) @@ [specificIds |-> specificIds]

\* The bids a batch is drawn from.
BidOrders ==
    { Bid("universe", "erc721", "nftA"),
      Bid("forward", "erc721", "nftA"),
      Bid("looks-rare", "erc721", "nftA"),
      Bid("seaport", "erc1155", "nftB"),
      Bid("seaport-partial", "erc721", "nftA"),
      Bid("x2y2", "erc721", "nftA"),
      Bid("zeroex-v4", "erc721", "nftB") }

BidOptions ==
    { [partial |-> p, relayer |-> "none", forceRouter |-> FALSE, globalFees |-> <<>>,
       forcePermit |-> f] : p \in BOOLEAN, f \in BOOLEAN }

InitBids ==
    /\ call = "bids"
    /\ request \in Batches(BidOrders, MaxOrders)
    /\ buyInCurrency = Eth
    /\ options \in BidOptions
    /\ fetchOk \in FetchOutcomes(request)
    /\ now = FirstInstant
    /\ InitCommon

NoRouterBidKinds == {"universe", "forward"}

\* CASE 1: "continue" when no such bid is in the batch, else "throw" or "return"
NoRouterBids(d) ==
    IF ~HasKind(d, NoRouterBidKinds) THEN "continue"
    ELSE IF Len(d) > 1 THEN "throw"
    ELSE "return"

NFTApproval(contract, owner, operator) ==
    [contract |-> contract, owner |-> owner, operator |-> operator]

DirectBidBundle(d) ==
    [txs |-> << Tx("direct", "exchange", <<NFTApproval(d[1].contract, "taker", "exchange")>>,
                   <<>>, <<>>, <<1>>, {1}, 0) >>,
     success |-> <<TRUE>>]

\* The module a bid is filled through ("none": the default branch of the switch)
BidModule(kind) ==
    CASE kind = "looks-rare" -> "looksRareModule"
      [] kind \in {"seaport", "seaport-partial"} -> "seaportModule"
      [] kind \in {"seaport-v1.4", "seaport-v1.4-partial"} -> "seaportV14Module"
      [] kind = "sudoswap" -> "sudoswapModule"
      [] kind = "nftx" -> "nftxModule"
      [] kind = "x2y2" -> "x2y2Module"
      [] kind = "zeroex-v4" -> "zeroExV4Module"
      [] kind = "element" -> "elementModule"
      [] kind = "rarible" -> "raribleModule"
      [] OTHER -> "none"

\* CASE 1, then step 1 of CASE 2: one approval and one permit item per bid
FillBidsApprovals ==
    /\ call = "bids" /\ pc = "start"
    /\ LET outcome == NoRouterBids(details) IN
        CASE outcome = "throw" -> Throw /\ UNCHANGED <<approvals, permitItems, success>>
          [] outcome = "return" ->
                Return(DirectBidBundle(details)) /\ UNCHANGED <<approvals, permitItems, success>>
          [] OTHER ->
                IF \E i \in 1..Len(details) : BidModule(details[i].kind) = "none"
                THEN Throw /\ UNCHANGED <<approvals, permitItems, success>>
                ELSE /\ approvals' = [i \in 1..Len(details) |->
                                        NFTApproval(details[i].contract, "taker", "openseaConduit")]
                     /\ permitItems' = [i \in 1..Len(details) |->
                                        [token |-> i, receiver |-> BidModule(details[i].kind)]]
                     /\ success' = AllFalse(Len(details))
                     /\ pc' = "offers"
                     /\ UNCHANGED <<result, ret>>
    /\ UNCHANGED <<jobVars, balances, sql, pages, query, userTokens, response, now, earlier, call, request, details, buyInCurrency, options, fetchOk, blurResponse,
                   cursor, txs, executions, swapDetails, orderIndexes,
                   successfulSwapExecutions, unsuccessfulDependentExecutionIndexes,
                   failedPools>>

\* Does handling the bid await an external service
BidFetches(bid) ==
    \/ bid.kind \in {"seaport-partial", "seaport-v1.4-partial", "x2y2"}
    \/ bid.kind = "zeroex-v4" /\ bid.cbOrderId

\* The details after the bid at position i went through its case of the
\* switch: an nftx order gets the token id as its specificIds, in place
SetSpecificIds(d, i) ==
    IF d[i].kind = "nftx" THEN [d EXCEPT ![i].specificIds = <<i>>] ELSE d

MarkHandled_never(succ, i) == succ

\* success[i] = true, after the execution of the bid at position i was pushed
MarkHandled(succ, i) == [succ EXCEPT ![i] = TRUE]

\* Step 2: one iteration of the loop over the bids
FillBidsOffer ==
    /\ call = "bids" /\ pc = "offers" /\ cursor <= Len(details)
    /\ details' = SetSpecificIds(details, cursor)
    /\ LET bid == details[cursor] IN
       IF BidFetches(bid) /\ ~fetchOk[cursor]
       THEN IF ~options.partial
            THEN Throw /\ UNCHANGED <<cursor, executions, success>>
            ELSE /\ cursor' = cursor + 1
                 /\ UNCHANGED <<executions, success, pc, result, ret>>
       ELSE /\ executions' = Append(executions,
                                Execution(BidModule(bid.kind), <<cursor>>, 0, bid.fees, 0))
            /\ success' = MarkHandled(success, cursor)
            /\ cursor' = cursor + 1
            /\ UNCHANGED <<pc, result, ret>>
    /\ UNCHANGED <<jobVars, balances, sql, pages, query, userTokens, response, now, earlier, call, request, buyInCurrency, options, fetchOk, blurResponse,
                   txs, swapDetails, orderIndexes, approvals, permitItems,
                   successfulSwapExecutions, unsuccessfulDependentExecutionIndexes,
                   failedPools>>

\* The entries of a list whose position is marked successful
FilterSuccessful(list, succ) ==
    LET kept == SortedSeq({i \in 1..Len(list) : succ[i]})
    IN [k \in 1..Len(kept) |-> list[kept[k]]]

BidBundle_firstDetail(d, execs, succ, apps, items, o) ==
    IF Len(execs) = 1 /\ ~o.forcePermit
    THEN [txs |-> << Tx("nftTransfer", d[1].contract, <<>>, <<>>, execs, <<>>, {1}, 0)
                          @@ [tokenId |-> 1, recipient |-> execs[1].module] >>,
          success |-> succ]
    ELSE [txs |-> << Tx("router", "router", Distinct(FilterSuccessful(apps, succ)),
                        << [items |-> FilterSuccessful(items, succ)] >>, execs,
                        <<>>, Fills(execs), 0) >>,
          success |-> succ]

\* The bundle fillBidsTx returns for its executions
BidBundle(d, execs, succ, apps, items, o) ==
    IF Len(execs) = 1 /\ ~o.forcePermit
    THEN LET first == CHOOSE i \in 1..Len(succ) :
                        succ[i] /\ \A j \in 1..(i - 1) : ~succ[j]
         IN [txs |-> << Tx("nftTransfer", d[first].contract, <<>>, <<>>, execs,
                           <<>>, {first}, 0)
                          @@ [tokenId |-> first, recipient |-> execs[1].module] >>,
             success |-> succ]
    ELSE [txs |-> << Tx("router", "router", Distinct(FilterSuccessful(apps, succ)),
                        << [items |-> FilterSuccessful(items, succ)] >>, execs,
                        <<>>, Fills(execs), 0) >>,
          success |-> succ]

FillBidsPackage ==
    /\ call = "bids" /\ pc = "offers" /\ cursor > Len(details)
    /\ IF executions = <<>> THEN Throw
       ELSE Return(BidBundle(details, executions, success, approvals, permitItems, options))
    /\ UNCHANGED <<jobVars, balances, sql, pages, query, userTokens, response, now, earlier, call, request, details, buyInCurrency, options, fetchOk, blurResponse,
                   cursor, success, txs, executions, swapDetails, orderIndexes, approvals,
                   permitItems, successfulSwapExecutions,
                   unsuccessfulDependentExecutionIndexes, failedPools>>

NextBids ==
    \/ FillBidsApprovals
    \/ FillBidsOffer
    \/ FillBidsPackage

SpecBids == InitBids /\ [][NextBids]_vars

Init == InitListings \/ InitBids

Next == NextListings \/ NextBids

Spec == Init /\ [][Next]_vars

------------------------------------------------------------------------------
\* Listing batches in several currencies, paid in any of them

\* The listings of these batches
SwapListingOrders ==
    { Listing("seaport", "other", "erc721", Eth, 10),
      Listing("seaport", "other", "erc721", Usdc, 11),
      Listing("seaport", "other", "erc721", Weth, 12),
      Listing("looks-rare", "looksrare.org", "erc721", Eth, 17) }

InitSwaps ==
    /\ call = "listings"
    /\ request \in Batches(SwapListingOrders, MaxOrders)
    /\ buyInCurrency \in {Eth, Weth, Usdc}
    /\ options \in ExploredListingOptions
    /\ fetchOk \in FetchOutcomes(request)
    /\ now = FirstInstant
    /\ InitCommon

SpecSwaps == InitSwaps /\ [][NextListings]_vars

------------------------------------------------------------------------------
\* A caller that makes the same call a second time

\* The listings of the repeated calls
RepeatedListingOrders ==
    { PoolListing("sudoswap", "pairA", <<20, 21, 22, 23>>, 20),
      PoolListing("nftx", "poolA", <<30, 32, 34, 36>>, 0),
      Listing("seaport-partial", "opensea.io", "erc721", Eth, 13),
      Listing("seaport", "other", "erc721", Usdc, 11),
      Listing("looks-rare", "looksrare.org", "erc721", Eth, 17) }

\* The bids of the repeated calls
RepeatedBidOrders ==
    { Bid("sudoswap", "erc721", "nftA"),
      NftxBid("nftA", <<>>),
      Bid("seaport-partial", "erc721", "nftA"),
      Bid("looks-rare", "erc721", "nftB") }

RepeatedListingOptions ==
    { o \in ListingOptions : o.relayer = "none" /\ o.globalFees = <<>> /\ ~o.forceRouter }

InitRepeated ==
    /\ \/ /\ call = "listings"
          /\ request \in Batches(RepeatedListingOrders, MaxOrders)
          /\ options \in RepeatedListingOptions
       \/ /\ call = "bids"
          /\ request \in Batches(RepeatedBidOrders, MaxOrders)
          /\ options \in BidOptions
    /\ buyInCurrency = Eth
    /\ fetchOk \in FetchOutcomes(request)
    /\ now \in Clock
    /\ InitCommon

\* The caller makes the call again at instant t with the options `opts`, passing
\* either the very array it passed before (`shared`) or an array equal to what
\* that array was before the first call
Recall(shared, opts, t) ==
    /\ pc = "done" /\ ~earlier.made
    /\ earlier' = [made |-> TRUE, shared |-> shared, result |-> result, ret |-> ret,
                   blurResponse |-> blurResponse, failedPools |-> failedPools,
                   now |-> now]
    /\ details' = IF shared THEN details ELSE request
    /\ options' = opts
    /\ now' = t
    /\ blurResponse' = NoBlurResponse
    /\ pc' = "start"
    /\ cursor' = 1
    /\ success' = <<>>
    /\ txs' = <<>>
    /\ executions' = <<>>
    /\ swapDetails' = <<>>
    /\ orderIndexes' = <<>>
    /\ approvals' = <<>>
    /\ permitItems' = <<>>
    /\ successfulSwapExecutions' = <<>>
    /\ unsuccessfulDependentExecutionIndexes' = {}
    /\ failedPools' = {}
    /\ result' = "pending"
    /\ ret' = [txs |-> <<>>, success |-> <<>>]
    /\ UNCHANGED <<call, request, buyInCurrency, fetchOk, query, userTokens, response,
                   jobVars, balances, sql, pages>>

\* The same call again, later or in the same instant
CallAgain ==
    \E shared \in BOOLEAN : \E t \in Clock : t >= now /\ Recall(shared, options, t)

NextRepeated == NextListings \/ NextBids \/ CallAgain

SpecRepeated == InitRepeated /\ [][NextRepeated]_vars

------------------------------------------------------------------------------
\* A caller that repeats a directly filled call with forceRouter set

\* The listings of these calls
DirectListingOrders ==
    { Listing("seaport", "opensea.io", "erc721", Eth, 10),
      Listing("seaport", "blur.io", "erc721", Eth, 12),
      Listing("seaport", "other", "erc1155", Eth, 9),
      Listing("seaport-partial", "opensea.io", "erc721", Eth, 13),
      Listing("seaport", "other", "erc721", Usdc, 11) }

InitPaths ==
    /\ call = "listings"
    /\ request \in Batches(DirectListingOrders, MaxOrders)
    /\ buyInCurrency \in {Eth, Usdc}
    /\ options \in RepeatedListingOptions
    /\ fetchOk \in FetchOutcomes(request)
    /\ now = FirstInstant
    /\ InitCommon

\* Was the bundle returned by the direct Seaport fill
DirectlyFilled(bundle) ==
    Len(bundle.txs) = 1 /\ bundle.txs[1].kind \in {"seaport", "seaport-v1.4"}

\* The call that was filled directly is made again with forceRouter set
CallAgainThroughRouter ==
    /\ result = "returned" /\ DirectlyFilled(ret)
    /\ Recall(FALSE, [options EXCEPT !.forceRouter = TRUE], now)

NextPaths == NextListings \/ CallAgainThroughRouter

SpecPaths == InitPaths /\ [][NextPaths]_vars

------------------------------------------------------------------------------
\* Calls with orders of the protocols that have no router module

NoRouterListingOrders ==
    { Listing(kind, "other", "erc721", currency, 10) :
        kind \in NoRouterListingKinds, currency \in {Eth, Usdc} }
    \cup { Listing("looks-rare", "looksrare.org", "erc721", Eth, 17) }

InitNoRouter ==
    /\ call = "listings"
    /\ request \in Batches(NoRouterListingOrders, MaxOrders)
    /\ buyInCurrency = Eth
    /\ options \in ListingOptions
    /\ fetchOk \in FetchOutcomes(request)
    /\ now = FirstInstant
    /\ InitCommon

SpecNoRouter == InitNoRouter /\ [][NextListings]_vars

------------------------------------------------------------------------------
\* Calls with fee entries that count and fee entries that do not

\* A fee entry that counts, one with a zero amount, one for the null address
FeeEntries == {Fee("feeRecipient", 4), Fee("feeRecipient", 0), Fee(AddressZero, 4)}

\* The fee lists of a listing or of the options
FeeLists == {<<>>} \cup {<<f>> : f \in FeeEntries} \cup {<<f, Fee("feeRecipient", 4)>> : f \in FeeEntries}

WithFees(order, fees) == [order EXCEPT !.fees = fees]

FeeListingOrders ==
    { WithFees(Listing(kind, "other", "erc721", Eth, 10), fees) :
        kind \in {"seaport", "looks-rare"}, fees \in {<<>>} \cup {<<f>> : f \in FeeEntries} }

FeeListingOptions ==
    { o \in ListingOptions : o.relayer = "none" /\ ~o.forceRouter /\ o.globalFees = <<>> }

InitFees ==
    /\ call = "listings"
    /\ request \in Batches(FeeListingOrders, MaxOrders)
    /\ buyInCurrency = Eth
    /\ \E o \in FeeListingOptions : \E g \in FeeLists : options = [o EXCEPT !.globalFees = g]
    /\ fetchOk \in FetchOutcomes(request)
    /\ now = FirstInstant
    /\ InitCommon

SpecFees == InitFees /\ [][NextListings]_vars

------------------------------------------------------------------------------
\* The user-tokens request (GET /users/{user}/tokens/v6)

MaxTokens == 2

\* A column holding an amount of wei
Wei(v) == [null |-> FALSE, wei |-> v]

FloorValues == {null, Wei(5), Wei(7)}

\* The token and collection columns of a row of the user
TokenRows ==
    [collection_id : {"collectionA"},
     floor_sell_value : FloorValues,
     non_flagged_floor_sell_value : FloorValues]

toBuffer(hex) == [bytes |-> hex]

fromBuffer(buffer) == buffer.bytes

\* A balance of the user joined with its token and collection; acquired_at
\* counts half seconds
Balance(contract, tokenId, acquiredAt, row) ==
    [contract |-> toBuffer(contract), token_id |-> tokenId, acquired_at |-> acquiredAt,
     collection_id |-> row.collection_id,
     floor_sell_value |-> row.floor_sell_value,
     non_flagged_floor_sell_value |-> row.non_flagged_floor_sell_value]

\* A validated query: limit is at least 1, sortDirection is asc or desc, and
\* the first page is asked without a continuation
Query(limit, sortDirection, useNonFlaggedFloorAsk, collectionsSetId, collection) ==
    [route |-> "userTokens", limit |-> limit, sortDirection |-> sortDirection,
     continuation |-> null, useNonFlaggedFloorAsk |-> useNonFlaggedFloorAsk,
     collectionsSetId |-> collectionsSetId, collection |-> collection]

Queries ==
    {Query(l, d, f, null, null) : l \in 1..MaxTokens, d \in {"asc", "desc"}, f \in BOOLEAN}

\* No router call is being made
NoRouterCall ==
    /\ call = "none"
    /\ request = <<>>
    /\ buyInCurrency = Eth
    /\ options = [partial |-> FALSE]
    /\ fetchOk = <<>>
    /\ now = FirstInstant
    /\ InitRouter

\* The user holds up to MaxTokens tokens of one contract, acquired in
\* different seconds
InitUserTokens ==
    /\ NoRouterCall
    /\ JobsIdle
    /\ query \in Queries
    /\ balances \in {[i \in 1..Len(rows) |-> Balance("0xa", i, 2 * i, rows[i])] :
                        rows \in Batches(TokenRows, MaxTokens)}
    /\ sql = NoSql
    /\ userTokens = <<>>
    /\ response = NoResponse
    /\ pages = <<>>

\* The collection ids the filters are built from: contract-wide, range based
\* and list based ones
IsRange(id) == id \in {"0xa:1:1"}

IsList(id) == id \in {"0xa:list-x", "0xa:list-y"}

\* id.split(":") of a range based id
split(id) == [contract |-> "0xa", startTokenId |-> 1, endTokenId |-> 1]

\* query[name] = value
SetParam(params, name, value) ==
    [n \in DOMAIN params \cup {name} |-> IF n = name THEN value ELSE params[n]]

NoFilters ==
    [params |-> <<>>, nftBalanceCollectionFilters |-> <<>>, tokensCollectionFilters |-> <<>>]

\* One call of addCollectionToFilter: the parameters are numbered with the
\* length of nftBalanceCollectionFilters; each filter keeps the names of its
\* parameters and the id it was generated for
addCollectionToFilter(st, id) ==
    LET i == ToString(Len(st.nftBalanceCollectionFilters))
    IN  IF IsRange(id)
        THEN [st EXCEPT
                !.params = SetParam(SetParam(SetParam(@,
                               "contract" \o i, toBuffer(split(id).contract)),
                               "startTokenId" \o i, split(id).startTokenId),
                               "endTokenId" \o i, split(id).endTokenId),
                !.nftBalanceCollectionFilters =
                    Append(@, [kind |-> "range", contract |-> "contract" \o i,
                               startTokenId |-> "startTokenId" \o i,
                               endTokenId |-> "endTokenId" \o i, id |-> id])]
        ELSE IF IsList(id)
        THEN [st EXCEPT
                !.params = SetParam(@, "collection" \o i, id),
                !.tokensCollectionFilters =
                    Append(@, [kind |-> "list", collection |-> "collection" \o i,
                               id |-> id])]
        ELSE [st EXCEPT
                !.params = SetParam(@, "contract" \o i, toBuffer(id)),
                !.nftBalanceCollectionFilters =
                    Append(@, [kind |-> "contract", contract |-> "contract" \o i,
                               id |-> id])]

RECURSIVE forEach(_, _)
forEach(st, ids) ==
    IF ids = <<>> THEN st ELSE forEach(addCollectionToFilter(st, Head(ids)), Tail(ids))

\* The filters after the collections of the set were added
SetFilters(q) ==
    IF q.collectionsSetId # null THEN forEach(NoFilters, q.collectionsSetId.ids) ELSE NoFilters

\* A collections set that gave no balance filter answers no tokens
NoBalanceFilter(q) ==
    q.collectionsSetId # null /\ SetFilters(q).nftBalanceCollectionFilters = <<>>

\* The filters of the base query
CollectionFilters(q) ==
    IF q.collection # null /\ ~NoBalanceFilter(q)
    THEN addCollectionToFilter(SetFilters(q), q.collection.text)
    ELSE SetFilters(q)

\* A filter of the base query on the row r, with the parameters as they are
\* when the query is sent
FilterHolds(f, params, r) ==
    CASE f.kind = "range" -> /\ r.contract = params[f.contract]
                             /\ r.token_id >= params[f.startTokenId]
                             /\ r.token_id <= params[f.endTokenId]
      [] f.kind = "list" -> r.collection_id = params[f.collection]
      [] f.kind = "contract" -> r.contract = params[f.contract]

AnyFilterHolds(filters, params, r) ==
    filters = <<>> \/ \E k \in 1..Len(filters) : FilterHolds(filters[k], params, r)

\* _.toInteger of the seconds of a row
toInteger(acquired_at) == acquired_at \div 2

\* to_timestamp of whole seconds
to_timestamp(seconds) == seconds * 2

\* (a1, t1) < (a2, t2) of SQL
RowLess(a1, t1, a2, t2) == a1 < a2 \/ (a1 = a2 /\ t1 < t2)

\* The condition a continuation adds to the base query
ContinuationCondition(q, r) ==
    \/ q.continuation = null
    \/ IF q.sortDirection = "desc"
       THEN RowLess(r.acquired_at, r.token_id,
                    to_timestamp(q.continuation.acquiredAt), q.continuation.tokenId)
       ELSE RowLess(to_timestamp(q.continuation.acquiredAt), q.continuation.tokenId,
                    r.acquired_at, r.token_id)

\* The rows (positions in balances) the base query selects
Selected(q, st, rows) ==
    {i \in 1..Len(rows) :
        /\ AnyFilterHolds(st.nftBalanceCollectionFilters, st.params, rows[i])
        /\ AnyFilterHolds(st.tokensCollectionFilters, st.params, rows[i])
        /\ ContinuationCondition(q, rows[i])}

\* ORDER BY acquired_at, token_id in the direction of the query: rows equal
\* in both columns come in any order
OrderBy(q, rows, selected) ==
    {o \in [1..Cardinality(selected) -> selected] :
        /\ \A i, j \in DOMAIN o : i # j => o[i] # o[j]
        /\ \A i, j \in DOMAIN o :
               i < j =>
                   LET r1 == IF q.sortDirection = "desc" THEN rows[o[j]] ELSE rows[o[i]]
                       r2 == IF q.sortDirection = "desc" THEN rows[o[i]] ELSE rows[o[j]]
                   IN  ~RowLess(r2.acquired_at, r2.token_id, r1.acquired_at, r1.token_id)}

\* LIMIT
Limit(q, rows, o) ==
    [i \in 1..(IF Len(o) < q.limit THEN Len(o) ELSE q.limit) |-> rows[o[i]]]

\* The column the base query selects as "collection_floor_sell_value"
collection_floor_sell_value(q, r) ==
    IF q.useNonFlaggedFloorAsk THEN r.floor_sell_value ELSE r.non_flagged_floor_sell_value

\* An amount of wei as a number of ether
formatEth(v) == [eth |-> v.wei]

\* The floorAskPrice answered for a selected column
floorAskPrice(column) == IF ~column.null THEN formatEth(column) ELSE null

\* The token answered for the row r
UserToken(q, r) ==
    [token |-> [contract |-> fromBuffer(r.contract), tokenId |-> r.token_id],
     collection |-> [id |-> r.collection_id,
                     floorAskPrice |-> floorAskPrice(collection_floor_sell_value(q, r))]]

\* A continuation is answered when the page is full: the whole seconds, the
\* collection and the token id of the last row
Continuation(q, rows) ==
    IF Len(rows) = q.limit
    THEN [null |-> FALSE,
          acquiredAt |-> toInteger(rows[Len(rows)].acquired_at),
          collectionId |-> rows[Len(rows)].collection_id,
          tokenId |-> rows[Len(rows)].token_id]
    ELSE null

GetUserTokens ==
    /\ query.route = "userTokens"
    /\ ~response.answered
    /\ LET st == CollectionFilters(query)
       IN  IF NoBalanceFilter(query)
           THEN /\ sql' = [built |-> TRUE, sent |-> FALSE, params |-> st.params,
                           nftBalanceCollectionFilters |-> st.nftBalanceCollectionFilters,
                           tokensCollectionFilters |-> st.tokensCollectionFilters]
                /\ userTokens' = <<>>
                /\ response' = [answered |-> TRUE, tokens |-> <<>>,
                                continuation |-> undefined]
           ELSE \E o \in OrderBy(query, balances, Selected(query, st, balances)) :
                    LET rows == Limit(query, balances, o)
                    IN  /\ sql' = [built |-> TRUE, sent |-> TRUE, params |-> st.params,
                                   nftBalanceCollectionFilters |->
                                       st.nftBalanceCollectionFilters,
                                   tokensCollectionFilters |-> st.tokensCollectionFilters]
                        /\ userTokens' = rows
                        /\ response' = [answered |-> TRUE,
                                        tokens |-> [i \in 1..Len(rows) |->
                                                       UserToken(query, rows[i])],
                                        continuation |-> Continuation(query, rows)]
    /\ UNCHANGED <<query, balances, pages, jobVars, routerVars>>

NextUserTokens == GetUserTokens

SpecUserTokens == InitUserTokens /\ [][NextUserTokens]_vars

\* Requests filtered by a collections set and by a collection

MaxIds == 2

FilterIds == {"0xa", "0xb", "0xa:1:1", "0xa:list-x", "0xa:list-y"}

\* What CollectionSets.getCollectionsIds answers for the set of the query
CollectionSets == [null : {FALSE}, ids : Batches(FilterIds, MaxIds)]

\* The user holds a token of each list based collection of contract 0xa and
\* one of contract 0xb
FilteredBalances ==
    LET Row(id) == [collection_id |-> id, floor_sell_value |-> null,
                    non_flagged_floor_sell_value |-> null]
    IN  <<Balance("0xa", 1, 2, Row("0xa:list-x")),
          Balance("0xa", 2, 4, Row("0xa:list-y")),
          Balance("0xb", 1, 6, Row("0xb"))>>

InitFilters ==
    /\ NoRouterCall
    /\ JobsIdle
    /\ query \in {Query(l, "desc", FALSE, set, c) :
                     l \in 1..MaxTokens,
                     set \in {null} \cup CollectionSets,
                     c \in {null} \cup {Text(id) : id \in FilterIds}}
    /\ balances = FilteredBalances
    /\ sql = NoSql
    /\ userTokens = <<>>
    /\ response = NoResponse
    /\ pages = <<>>

SpecFilters == InitFilters /\ [][NextUserTokens]_vars

\* A client that reads page after page

MaxRows == 3

MaxPages == 5

\* The rows a user may hold: tokens 1 and 2 of two contracts, acquired at
\* second 1 or at second 2
PagedRows ==
    LET Row(id) == [collection_id |-> id, floor_sell_value |-> null,
                    non_flagged_floor_sell_value |-> null]
    IN  {Balance(c, t, a, Row(c)) : c \in {"0xa", "0xb"}, t \in {1, 2}, a \in {2, 4}}

\* The primary key of nft_balances for one owner, as a number
KeyOf(r) == 2 * r.token_id + (IF fromBuffer(r.contract) = "0xa" THEN 0 ELSE 1)

\* The tables of up to MaxRows rows, each (contract, token_id) at most once
PagedBalances ==
    {rows \in Batches(PagedRows, MaxRows) :
        \A i, j \in DOMAIN rows : i < j => KeyOf(rows[i]) < KeyOf(rows[j])}

InitPaging ==
    /\ NoRouterCall
    /\ JobsIdle
    /\ query \in {Query(l, d, FALSE, null, null) : l \in 1..MaxTokens, d \in {"asc", "desc"}}
    /\ balances \in PagedBalances
    /\ sql = NoSql
    /\ userTokens = <<>>
    /\ response = NoResponse
    /\ pages = <<>>

\* The client asks for the next page with the continuation it was answered
\* and the same filters, limit and sortDirection
FollowContinuation ==
    /\ response.answered
    /\ response.continuation \notin {null, undefined}
    /\ Len(pages) < MaxPages
    /\ pages' = Append(pages, response.tokens)
    /\ query' = [query EXCEPT !.continuation = response.continuation]
    /\ sql' = NoSql
    /\ userTokens' = <<>>
    /\ response' = NoResponse
    /\ UNCHANGED <<balances, jobVars, routerVars>>

NextPaging == GetUserTokens \/ FollowContinuation

SpecPaging == InitPaging /\ [][NextPaging]_vars

------------------------------------------------------------------------------
\* The worker of refresh-activities-token-metadata-queue

MaxRuns == 3

MaxJobs == 2

Rank(v) == [null |-> FALSE, rank |-> v]

\* The tokens of the one contract the jobs are about
TokenIds == {1, 2}

\* What Collections.getByContractAndTokenId answers for a token: no collection, or
\* the collection the token belongs to with its day-30 rank
CollectionRows == {null} \cup [day30Rank : {null, Rank(1), Rank(1000), Rank(1001)}]

\* What Tokens.getByContractAndTokenId answers for a token
TokenEntities ==
    {null} \cup [contract : {Text("contract")}, name : {null, Text("name")}]

Tables == [collections : [TokenIds -> CollectionRows], tokens : [TokenIds -> TokenEntities]]

\* The token update data a job may carry
TokenUpdateData == {undefined} \cup [name : {null, Text("name")}]

Job(contract, tokenId, tokenUpdateData) ==
    [contract |-> contract, tokenId |-> tokenId, tokenUpdateData |-> tokenUpdateData]

Jobs == {Job("contract", t, u) : t \in TokenIds, u \in TokenUpdateData}

InitWorker ==
    /\ NoRouterCall
    /\ UserTokensIdle
    /\ queue \in Batches(Jobs, MaxJobs) \ {<<>>}
    /\ redis = NoKeys
    /\ db \in Tables
    /\ lastRun = NoRun
    /\ kafka = <<>>
    /\ websocketEvents = <<>>

\* queue.add: the job goes to the end of the queue
addToQueue(q, contract, tokenId, tokenUpdateData) ==
    Append(q, Job(contract, tokenId, tokenUpdateData))

\* The key of the cached rank: one key for each contract
RankKey(contract) == "collection-day-30-rank:" \o contract

\* Number() of a cached value: a rank stored as null reads as 0
Number(cached) == IF cached.stored = null THEN Rank(0) ELSE cached.stored

\* A rank the conditions of the worker take as true
Truthy(rank) == rank # undefined /\ rank # null /\ rank.rank # 0

\* The rank found in the cache, if any
CachedRank(keys, job) ==
    IF keys[RankKey(job.contract)] # null
    THEN Number(keys[RankKey(job.contract)])
    ELSE undefined

\* The rank the run works with: the cached one, or else the one of the
\* collection of the token
collectionDay30Rank(keys, tables, job) ==
    LET cached == CachedRank(keys, job)
        collection == tables.collections[job.tokenId]
    IN  IF Truthy(cached) THEN cached
        ELSE IF collection # null THEN collection.day30Rank
        ELSE cached

\* The rank read from the database is cached under the key of the contract
CacheRank(keys, tables, job) ==
    LET collection == tables.collections[job.tokenId]
    IN  IF ~Truthy(CachedRank(keys, job)) /\ collection # null
        THEN [keys EXCEPT ![RankKey(job.contract)] = [stored |-> collection.day30Rank]]
        ELSE keys

\* _.pickBy(data, value !== null)
pickBy(data) ==
    IF data = null THEN <<>>
    ELSE [f \in {g \in DOMAIN data : data[g] # null} |-> data[f]]

isEmpty(data) == DOMAIN data = {}

\* The data of the job, or else the token read from the database, without
\* its null fields
tokenUpdateData(tables, job) ==
    pickBy(IF job.tokenUpdateData \in {undefined, null}
           THEN tables.tokens[job.tokenId]
           ELSE job.tokenUpdateData)

\* The run calls updateActivitiesTokenMetadata
Updates(rank, data) == Truthy(rank) /\ rank.rank <= 1000 /\ ~isEmpty(data)

\* One run of the worker on the job at the head of the queue; keepGoing is what
\* updateActivitiesTokenMetadata answers
RefreshActivitiesTokenMetadata ==
    /\ queue # <<>>
    /\ lastRun.runs < MaxRuns
    /\ LET job == Head(queue)
           rank == collectionDay30Rank(redis, db, job)
           data == tokenUpdateData(db, job)
       IN  \E keepGoing \in IF Updates(rank, data) THEN BOOLEAN ELSE {FALSE} :
               /\ redis' = CacheRank(redis, db, job)
               /\ queue' = IF keepGoing
                           THEN addToQueue(Tail(queue), job.contract, job.tokenId, data)
                           ELSE Tail(queue)
               /\ lastRun' = [runs |-> lastRun.runs + 1, job |-> job, rank |-> rank,
                              data |-> data, updated |-> Updates(rank, data),
                              keepGoing |-> keepGoing, waiting |-> Tail(queue)]
    /\ UNCHANGED <<db, kafka, websocketEvents, query, balances, sql, userTokens, response,
                   pages, routerVars>>

NextWorker == RefreshActivitiesTokenMetadata

SpecWorker == InitWorker /\ [][NextWorker]_vars

------------------------------------------------------------------------------
\* The handler of the change events of the collections table

MaxEvents == 2

CollectionIds == {"a", "b"}

\* The image of a collection row a change event carries
Images(names) == {null} \cup [id : CollectionIds, name : names]

\* The change events of the topic: the operation and the row before and after it
Payloads == [op : {"insert", "update", "delete"}, before : Images({"old"}), after : Images({"new"})]

\* JSON.stringify of a row
stringify(row) == [json |-> row]

CacheKey(id) == "collectionCache:v1:" \o id

\* The cache entries other code wrote before the events arrive
CollectionCaches ==
    {keys \in [RedisKeys -> {null} \cup {stringify(row) : row \in Images({"old"}) \ {null}}] :
        /\ keys[RankKey("contract")] = null
        /\ \A id \in CollectionIds :
               keys[CacheKey(id)] # null => keys[CacheKey(id)].json.id = id}

InitCollections ==
    /\ NoRouterCall
    /\ UserTokensIdle
    /\ queue = <<>>
    /\ db = NoTables
    /\ lastRun = NoRun
    /\ redis \in CollectionCaches
    /\ kafka \in Batches(Payloads, MaxEvents)
    /\ websocketEvents = <<>>

WebsocketEventRouter(events, payload, trigger) ==
    Append(events, [eventInfo |-> [before |-> payload.before, after |-> payload.after,
                                   trigger |-> trigger],
                    eventKind |-> "CollectionEvent"])

\* redis.set with the option XX
RedisSetXX_always(keys, key, value) == [keys EXCEPT ![key] = value]

\* redis.set with the option XX: only a key that exists is set
RedisSetXX(keys, key, value) ==
    IF keys[key] # null THEN [keys EXCEPT ![key] = value] ELSE keys

\* The event at the head of the topic is handed to the handler of its operation
Handles(op) == kafka # <<>> /\ Head(kafka).op = op /\ kafka' = Tail(kafka)

handleInsert ==
    /\ Handles("insert")
    /\ LET payload == Head(kafka)
       IN  websocketEvents' = IF payload.after = null THEN websocketEvents
                              ELSE WebsocketEventRouter(websocketEvents, payload, "insert")
    /\ UNCHANGED <<redis, queue, db, lastRun, query, balances, sql, userTokens, response,
                   pages, routerVars>>

handleUpdate ==
    /\ Handles("update")
    /\ LET payload == Head(kafka)
       IN  IF payload.after = null
           THEN UNCHANGED <<websocketEvents, redis>>
           ELSE /\ websocketEvents' = WebsocketEventRouter(websocketEvents, payload, "update")
                /\ redis' = RedisSetXX(redis, CacheKey(payload.after.id),
                                       stringify(payload.after))
    /\ UNCHANGED <<queue, db, lastRun, query, balances, sql, userTokens, response, pages,
                   routerVars>>

handleDelete ==
    /\ Handles("delete")
    /\ UNCHANGED <<websocketEvents, redis, queue, db, lastRun, query, balances, sql,
                   userTokens, response, pages, routerVars>>

NextCollections == handleInsert \/ handleUpdate \/ handleDelete

SpecCollections == InitCollections /\ [][NextCollections]_vars

------------------------------------------------------------------------------
\* Properties

ListingsReturned == call = "listings" /\ result = "returned"
BidsReturned == call = "bids" /\ result = "returned"

\* Is the order at position i encoded in the call data of a returned transaction
EncodedInReturn(i) == \E t \in 1..Len(ret.txs) : i \in ret.txs[t].fills

\* C1: on every return of fillListingsTx, success[i] is true if and only if
\* request i is encoded in an execution (or in externally generated call data)
\* of a returned transaction
C1_SuccessIffEncoded ==
    ListingsReturned =>
        \A i \in 1..Len(request) :
            (i \in DOMAIN ret.success /\ ret.success[i]) <=> EncodedInReturn(i)

\* Is the listing at position i covered by an entry of the Blur answer that the
\* Blur step goes ahead with
BlurCovered(i) ==
    /\ i \in Range(blurCompatibleListings(details))
    /\ \E e \in 1..Len(blurResponse.calldata) :
        /\ i \in Range(blurResponse.calldata[e])
        /\ \E j \in Range(blurResponse.calldata[e]) :
            j \in Range(blurCompatibleListings(details)) /\ details[j].source = "blur.io"

\* Is the listing at position i fillable on its own: its external fetch succeeds,
\* it is priced in the buy-in currency and some step of the call handles its kind
IndependentlyFillable(i) ==
    /\ fetchOk[i]
    /\ request[i].currency = buyInCurrency
    /\ \/ PartitionName([request[i] EXCEPT !.kind = FullKind(@)]) # "none"
       \/ request[i].kind \in NoRouterListingKinds
       \/ BlurCovered(i)

\* The order indexes of all returned transactions, concatenated
ReturnedOrderIndexes == Flatten([t \in 1..Len(ret.txs) |-> ret.txs[t].orderIndexes])

IsPermutation(s, n) == Len(s) = n /\ Range(s) = 1..n

\* C2: when every order is independently fillable and priced in the buy-in
\* currency, every success flag is true and the order indexes of the returned
\* transactions cover every position exactly once
C2_AllFilledAndIndexed ==
    (ListingsReturned /\ \A i \in 1..Len(request) : IndependentlyFillable(i)) =>
        /\ \A i \in 1..Len(request) : i \in DOMAIN ret.success /\ ret.success[i]
        /\ IsPermutation(ReturnedOrderIndexes, Len(request))

\* C3: on every return of fillListingsTx and fillBidsTx the success array has
\* one entry per element of the details array
C3_SuccessParallelToDetails ==
    result = "returned" => DOMAIN ret.success = 1..Len(request)

\* C3 witness: the direct Seaport fill returned for a batch of several orders
C3_Witness ==
    /\ ListingsReturned
    /\ Len(request) > 1
    /\ ret.txs[1].kind = "seaport"

\* The pool (position in pool iteration order) of the swap detail at position k
PoolOf(k) ==
    CHOOSE p \in 1..Len(aggregatedSwapDetails(swapDetails)) :
        k \in Range(aggregatedSwapDetails(swapDetails)[p])

\* Does the execution recorded with swap detail k depend on a pool whose swap failed
DependsOnFailedSwap(k) == PoolOf(k) \in failedPools

\* Is an execution filling listings of swap detail k in the returned router transaction
FillReturned(k) ==
    \E t \in 1..Len(ret.txs) : \E e \in 1..Len(ret.txs[t].executions) :
        /\ ~ret.txs[t].executions[e].swap
        /\ Range(ret.txs[t].executions[e].orders) \cap Range(swapDetails[k].details) # {}

\* C4: when swap generation fails for a pool, without partial mode the call
\* throws; in partial mode every order of every execution that depends on the
\* pool has success false and the execution is not in the returned executions,
\* while the executions of the other pools stay, their orders marked successful
C4_SwapFailureCascade ==
    /\ (call = "listings" /\ failedPools # {} /\ ~options.partial) => result = "thrown"
    /\ (call = "listings" /\ pc = "package") =>
          \A k \in 1..Len(swapDetails) :
              IF DependsOnFailedSwap(k)
              THEN \A i \in Range(swapDetails[k].details) : ~success[i]
              ELSE \A i \in Range(executions[swapDetails[k].executionIndex].orders) :
                      success[i]
    /\ ListingsReturned =>
          \A k \in 1..Len(swapDetails) :
              /\ DependsOnFailedSwap(k) =>
                    /\ ~FillReturned(k)
                    /\ \A i \in Range(swapDetails[k].details) : ~ret.success[i]
              /\ ~DependsOnFailedSwap(k) => FillReturned(k)

\* C4 witness: a bundle returned in partial mode after the swap of one pool
\* failed while the execution of another pool was kept
C4_Witness ==
    /\ ListingsReturned
    /\ options.partial
    /\ \E k \in 1..Len(swapDetails) : DependsOnFailedSwap(k) /\ ~FillReturned(k)
    /\ \E k \in 1..Len(swapDetails) : ~DependsOnFailedSwap(k) /\ FillReturned(k)

\* Does the batch mix an order of a no-router protocol with another order
MixedNoRouterBatch ==
    /\ Len(request) > 1
    /\ \/ call = "listings" /\ HasKind(request, NoRouterListingKinds)
       \/ call = "bids" /\ HasKind(request, NoRouterBidKinds)

\* C5: a batch mixing an order of a no-router protocol with another order always
\* throws, in partial mode too
C5_MixedNoRouterBatchThrows ==
    (MixedNoRouterBatch /\ pc # "start") => result = "thrown"

\* C5 witness: such a batch has thrown in partial mode
C5_Witness ==
    MixedNoRouterBatch /\ options.partial /\ result = "thrown"

\* Did fetching the full order of the partial order at position i fail
PartialFetchFailed(i) == request[i].kind \in PartialKinds /\ ~fetchOk[i]

\* Did the swap needed by the listing at position j fail
SwapFailedFor(j) ==
    \E k \in 1..Len(swapDetails) :
        j \in Range(swapDetails[k].details) /\ DependsOnFailedSwap(k)

\* Has the order at position j no failure of its own
NoFailureOfItsOwn(j) ==
    IF call = "bids" THEN ~BidFetches(request[j]) \/ fetchOk[j]
    ELSE \/ BlurCovered(j)
         \/ /\ fetchOk[j]
            /\ PartitionName([request[j] EXCEPT !.kind = FullKind(@)]) # "none"
            /\ ~SwapFailedFor(j)

\* C6 as stated: when fetching the full order of a partial order fails, without
\* partial mode the call throws; in partial mode that order ends with success
\* false and the orders with no failure of their own are filled
C6_PartialFetchFailure ==
    /\ (pc = "done" /\ ~options.partial /\ \E i \in 1..Len(request) : PartialFetchFailed(i))
          => result = "thrown"
    /\ (result = "returned" /\ options.partial) =>
          \A i \in 1..Len(request) :
              IF PartialFetchFailed(i) THEN ~ret.success[i]
              ELSE NoFailureOfItsOwn(i) => ret.success[i]

\* C6 amended: as above, but the failed order ends with success false unless the
\* Blur step's call data covers it, and it is in no execution and in no direct
\* fill of a returned transaction
C6_PartialFetchFailureUnlessBlur ==
    /\ (pc = "done" /\ ~options.partial /\ \E i \in 1..Len(request) : PartialFetchFailed(i))
          => result = "thrown"
    /\ (result = "returned" /\ options.partial) =>
          \A i \in 1..Len(request) :
              IF PartialFetchFailed(i)
              THEN /\ ret.success[i] => (call = "listings" /\ BlurCovered(i))
                   /\ \A t \in 1..Len(ret.txs) :
                         i \in ret.txs[t].fills => ret.txs[t].kind = "blur"
              ELSE NoFailureOfItsOwn(i) => ret.success[i]

\* C6 witness: a partial-mode call returned with a failed partial order left
\* unfilled next to a filled order
C6_Witness ==
    /\ result = "returned"
    /\ options.partial
    /\ \E i, j \in 1..Len(request) :
          PartialFetchFailed(i) /\ ~ret.success[i] /\ ret.success[j]

\* Did fetching the signature of the order at position i fail
SignatureFetchFailed(i) ==
    /\ ~fetchOk[i]
    /\ \/ request[i].kind = "x2y2"
       \/ request[i].kind = "zeroex-v4" /\ request[i].cbOrderId

\* C7: when fetching the signature of an X2Y2 or ZeroExV4 listing that reaches
\* its protocol handler fails, the call does not return without partial mode,
\* and in partial mode it returns that order with success false
C7_SignatureFetchFailure ==
    ListingsReturned =>
        \A i \in 1..Len(request) :
            (SignatureFetchFailed(i) /\ ~BlurCovered(i)) =>
                options.partial /\ ~ret.success[i]

\* C8: a call that ends with no transaction throws, the call with no orders
\* included
C8_NoTransactionThrows ==
    result = "returned" => ret.txs # <<>>

\* Has the call, made for a single listing of source blur.io, gone through the
\* Blur step without call data for the listing
SingleBlurListingUncovered ==
    /\ call = "listings"
    /\ Len(request) = 1
    /\ request[1].source = "blur.io"
    /\ pc = "done"
    /\ Len(success) = 1
    /\ ~BlurCovered(1)

\* C9 as stated: for a single listing of source blur.io that the Blur step left
\* without call data, the call throws without partial mode and returns
\* success = [false] with no transaction in partial mode
C9_SingleBlurListing ==
    SingleBlurListingUncovered =>
        IF options.partial
        THEN result = "returned" /\ ret.success = <<FALSE>> /\ ret.txs = <<>>
        ELSE result = "thrown"

\* C9 amended: for a single listing of source blur.io that the Blur step left
\* without call data, the call throws without partial mode; in partial mode it
\* returns success = [true] with one transaction (the router's or a direct
\* Seaport fill) when a later step fills the listing, and throws otherwise
C9_SingleBlurListingFallsThrough ==
    SingleBlurListingUncovered =>
        IF options.partial /\ NoFailureOfItsOwn(1)
        THEN /\ result = "returned"
             /\ ret.success = <<TRUE>>
             /\ Len(ret.txs) = 1
             /\ ret.txs[1].kind \in {"router", "seaport"}
             /\ ret.txs[1].fills = {1}
        ELSE result = "thrown"

\* C9 witness: in partial mode the call has thrown for such a listing that no
\* handler fills
C9_Witness ==
    SingleBlurListingUncovered /\ options.partial /\ result = "thrown"

\* Has the Blur step finished without marking any listing of source blur.io
BlurStepMarkedNoBlurListing ==
    /\ call = "listings"
    /\ Len(success) = Len(request)
    /\ pc \notin {"start", "resolve", "blur"}
    /\ \E i \in 1..Len(request) : request[i].source = "blur.io"
    /\ \A i \in 1..Len(request) : request[i].source = "blur.io" => ~BlurCovered(i)

\* C10: without partial mode the call throws when the Blur step ends with no
\* listing of source blur.io marked successful
C10_BlurFailureThrows ==
    (BlurStepMarkedNoBlurListing /\ ~options.partial) => result = "thrown"

\* C10 witness: the call has thrown although Blur answered, with call data for
\* none of the listings of source blur.io
C10_Witness ==
    /\ BlurStepMarkedNoBlurListing
    /\ ~options.partial
    /\ blurResponse.ok
    /\ result = "thrown"

\* Has a second call ended that was given arguments equal to those of the
\* first call and the same answers from the external services
SecondCallEnded ==
    /\ earlier.made
    /\ ~earlier.shared
    /\ pc = "done"
    /\ blurResponse = earlier.blurResponse
    /\ failedPools = earlier.failedPools

\* C11: two calls with identical inputs and identical answers of the external
\* services end the same way, with identical transactions (call data included)
\* and identical success arrays, whenever each of them runs
C11_SameInputsSameOutput ==
    SecondCallEnded => (result = earlier.result /\ ret = earlier.ret)

\* C12: when a call has returned or thrown, the caller's details array and the
\* orders in it are what they were before the call
C12_CallerDetailsUnchanged ==
    (pc = "done" /\ ~earlier.made) => details = request

\* The executions encoded into the router transaction of a bundle
RouterExecutions(bundle) ==
    IF \E t \in 1..Len(bundle.txs) : bundle.txs[t].kind = "router"
    THEN bundle.txs[CHOOSE t \in 1..Len(bundle.txs) : bundle.txs[t].kind = "router"].executions
    ELSE <<>>

SwapsOf(execs) == SelectSeq(execs, LAMBDA e : e.swap)
FillsOf(execs) == SelectSeq(execs, LAMBDA e : ~e.swap)

\* The swap executions of the pools whose swap was generated, in pool iteration order
GeneratedSwaps ==
    LET pools == aggregatedSwapDetails(swapDetails)
        swapped == SortedSeq({p \in 1..Len(pools) :
                      SwapNeeded(swapDetails, pools[p]) /\ p \notin failedPools})
    IN [k \in 1..Len(swapped) |->
          SwapExecution(swapDetails[pools[swapped[k]][1]].tokenIn,
                        QuotedAmountIn(totalAmountOut(swapDetails, pools[swapped[k]])))]

\* The position at which a fill execution was built
BuildPosition(e) == CHOOSE k \in 1..Len(executions) : executions[k] = e

\* C13: in the executions of the router transaction every swap comes before
\* every fill, the swaps are in pool iteration order and the fills that are
\* left are in the order in which they were built
C13_SwapsBeforeFills ==
    [][ (call = "listings" /\ pc = "package" /\ result' = "returned") =>
          LET enc == RouterExecutions(ret') IN
            /\ \A i, j \in 1..Len(enc) : (i < j /\ enc[j].swap) => enc[i].swap
            /\ enc # <<>> => SwapsOf(enc) = GeneratedSwaps
            /\ \A i, j \in 1..Len(enc) :
                  (i < j /\ ~enc[i].swap /\ ~enc[j].swap) =>
                      /\ enc[i] \in Range(executions)
                      /\ enc[j] \in Range(executions)
                      /\ BuildPosition(enc[i]) < BuildPosition(enc[j]) ]_vars

\* C13 witness: a returned router transaction with two swaps and two fills
C13_Witness ==
    /\ ListingsReturned
    /\ Len(SwapsOf(RouterExecutions(ret))) >= 2
    /\ Len(FillsOf(RouterExecutions(ret))) >= 2

\* The pools (positions in pool iteration order) whose in token is exactly
\* their out token
SameTokenPools ==
    {p \in 1..Len(aggregatedSwapDetails(swapDetails)) :
        LET head == swapDetails[aggregatedSwapDetails(swapDetails)[p][1]]
        IN head.tokenIn = head.tokenOut}

\* The permit items that pay a module directly
DirectPermitItems == SelectSeq(permitItems, LAMBDA item : item.to # "swapModule")

\* C14: for a pool whose in token is exactly its out token no swap is
\* generated (so none can fail and no swap execution is added), and the amounts
\* permitted for the pool add up to the summed out amount of the pool
C14_SameTokenPoolSkipsSwap ==
    (call = "listings" /\ pc = "package") =>
        LET pools == aggregatedSwapDetails(swapDetails) IN
          /\ SameTokenPools \cap failedPools = {}
          /\ Len(successfulSwapExecutions) =
                Cardinality((1..Len(pools)) \ (SameTokenPools \cup failedPools))
          /\ \A p \in SameTokenPools :
                LET tokenIn == swapDetails[pools[p][1]].tokenIn
                    paid == SelectSeq(DirectPermitItems, LAMBDA item : item.token = tokenIn)
                IN IF isETH(tokenIn) THEN paid = <<>>
                   ELSE SumSeq([k \in 1..Len(paid) |-> paid[k].amount]) =
                            totalAmountOut(swapDetails, pools[p])

\* C14 witness: a pool paid in the ERC20 token it is priced in, next to a pool
\* that needs a swap
C14_Witness ==
    /\ call = "listings" /\ pc = "package"
    /\ \E p \in SameTokenPools :
          ~isETH(swapDetails[aggregatedSwapDetails(swapDetails)[p][1]].tokenIn)
    /\ successfulSwapExecutions # <<>>

\* What the execution at position k charges for the global fee g
GlobalFeeCharged(k, g) ==
    SelectSeq(executions[k].fees, LAMBDA fee : fee.recipient = g.recipient)

\* C15: every execution built for a partition charges each global fee once,
\* floor(amount * partition size / number of orders of the batch), and what the
\* partitions of the batch charge for a global fee adds up to at most its amount
C15_GlobalFeeProration ==
    (call = "listings" /\ pc = "swap") =>
        \A g \in {fee \in Range(options.globalFees) : FeeCounts(fee)} :
            /\ \A k \in 1..Len(executions) :
                  /\ Len(GlobalFeeCharged(k, g)) = 1
                  /\ GlobalFeeCharged(k, g)[1].amount =
                        (g.amount * Len(swapDetails[k].details)) \div Len(details)
            /\ SumSeq([k \in 1..Len(executions) |-> GlobalFeeCharged(k, g)[1].amount])
                  <= g.amount

\* C15 witness: two partitions charge a global fee, and rounding down leaves
\* part of it uncharged
C15_Witness ==
    /\ call = "listings" /\ pc = "swap"
    /\ Len(executions) >= 2
    /\ \E g \in Range(options.globalFees) :
          /\ FeeCounts(g)
          /\ SumSeq([k \in 1..Len(executions) |-> GlobalFeeCharged(k, g)[1].amount])
                < g.amount

\* C16: the approvals returned with a transaction hold no two equal entries
\* (same token, owner and operator, hence the same approval call data)
C16_ApprovalsDeduplicated ==
    result = "returned" =>
        \A t \in 1..Len(ret.txs) :
            \A i, j \in 1..Len(ret.txs[t].approvals) :
                ret.txs[t].approvals[i] = ret.txs[t].approvals[j] => i = j

\* The order indexes a bundle reports as filled
ReportedOrderIndexes(bundle) ==
    UNION {Range(bundle.txs[t].orderIndexes) : t \in 1..Len(bundle.txs)}

\* Has the call, first filled directly, ended again through the router with the
\* same answers of the external services
RouterCallEnded ==
    /\ earlier.made
    /\ pc = "done"
    /\ options.forceRouter
    /\ blurResponse = earlier.blurResponse

\* C17: for a batch filled by the direct Seaport fill, the router path returns
\* the same success array and reports the same order indexes as filled
C17_DirectFillMatchesRouter ==
    RouterCallEnded =>
        /\ result = "returned"
        /\ ret.success = earlier.ret.success
        /\ ReportedOrderIndexes(ret) = ReportedOrderIndexes(earlier.ret)

\* Has fillBidsTx returned the bundle it assembles from its executions
BidsAssembled == BidsReturned /\ ~HasKind(request, NoRouterBidKinds)

\* C18: when fillBidsTx ends with exactly one execution and forcePermit is not
\* set, the transaction goes to the NFT contract of the one bid handled, moves
\* that bid's token to the module of the execution, and carries no approvals
\* and no permits; otherwise the transaction goes to the router
C18_SingleBidTransfersToken ==
    BidsAssembled =>
        LET tx == ret.txs[1]
            handled == {i \in 1..Len(request) : ret.success[i]}
        IN IF Len(tx.executions) = 1 /\ ~options.forcePermit
           THEN /\ Cardinality(handled) = 1
                /\ \A i \in handled :
                      /\ tx.to = request[i].contract
                      /\ tx.tokenId = i
                      /\ tx.recipient = BidModule(request[i].kind)
                      /\ tx.recipient = tx.executions[1].module
                /\ tx.approvals = <<>>
                /\ tx.permits = <<>>
           ELSE tx.to = "router"

\* C18 witness: the one bid handled is not the first bid of the batch
C18_Witness ==
    /\ BidsAssembled
    /\ ~options.forcePermit
    /\ Len(ret.txs[1].executions) = 1
    /\ ~ret.success[1]
    /\ ret.txs[1].to # "router"

\* Is the batch one Seaport listing priced in ETH, without fees, paid in ETH,
\* and not a listing the Blur step is asked about
SingleEthSeaportListing ==
    /\ call = "listings"
    /\ Len(request) = 1
    /\ request[1].kind = "seaport"
    /\ request[1].source # "blur.io"
    /\ isETH(request[1].currency)
    /\ request[1].fees = <<>>
    /\ options.globalFees = <<>>
    /\ isETH(buyInCurrency)

\* The number of fills a transaction carries: its executions, or the orders of
\* a direct fill
Fragments(tx) == IF tx.kind = "router" THEN Len(tx.executions) ELSE Cardinality(tx.fills)

PaidThroughSwap ==
    /\ call = "listings"
    /\ request # <<>>
    /\ ~isETH(buyInCurrency)
    /\ \A i \in 1..Len(request) : PartitionCurrency(request[i]) # buyInCurrency
    /\ pc = "done"
    /\ failedPools = {}

\* C20: a batch paid in an ERC20 token that differs from the currency of its
\* partitions, with the swap generated, comes back with a swap execution ahead
\* of the fills, every success flag true, and an approval of the buy-in token
\* owned by the relayer (the taker when no relayer is given)
C20_SwapBeforeFillsWithApproval ==
    PaidThroughSwap =>
        /\ result = "returned"
        /\ LET enc == RouterExecutions(ret) IN
             /\ Len(enc) >= 2
             /\ enc[1].swap
             /\ ~enc[Len(enc)].swap
             /\ \A i, j \in 1..Len(enc) : (i < j /\ enc[j].swap) => enc[i].swap
        /\ \A i \in 1..Len(request) : ret.success[i]
        /\ \E t \in 1..Len(ret.txs) : \E a \in Range(ret.txs[t].approvals) :
              /\ a.currency = buyInCurrency
              /\ a.owner = IF options.relayer = "none" THEN "taker" ELSE options.relayer

\* C20 witness: two listings, one of them priced in ETH, paid in an ERC20 token
\* through a custom relayer
C20_Witness ==
    /\ PaidThroughSwap
    /\ result = "returned"
    /\ Len(request) = 2
    /\ \E i \in 1..Len(request) : isETH(request[i].currency)
    /\ options.relayer # "none"

\* C21: when useNonFlaggedFloorAsk is true the collection floorAskPrice of every
\* answered token comes from the non-flagged floor sell value of its collection,
\* and when it is false from the regular floor sell value
C21_FlagSelectsNonFlaggedFloor ==
    response.answered =>
        \A i \in 1..Len(userTokens) :
            response.tokens[i].collection.floorAskPrice =
                floorAskPrice(IF query.useNonFlaggedFloorAsk
                              THEN userTokens[i].non_flagged_floor_sell_value
                              ELSE userTokens[i].floor_sell_value)

\* The pools of the recorded swap requirements that hold at least one
\* requirement whose tokenIn differs from its tokenOut
DifferingPools ==
    LET pools == aggregatedSwapDetails(swapDetails)
    IN {p \in 1..Len(pools) :
          \E k \in Range(pools[p]) : swapDetails[k].tokenIn # swapDetails[k].tokenOut}

\* The swap executions of the pools in `ps`, in pool order
SwapExecutionsOf(ps) ==
    LET pools == aggregatedSwapDetails(swapDetails)
        order == SortedSeq(ps)
    IN [n \in 1..Len(order) |->
          SwapExecution(swapDetails[pools[order[n]][1]].tokenIn,
                        QuotedAmountIn(totalAmountOut(swapDetails, pools[order[n]])))]

SwapStepCompleted == call = "listings" /\ pc = "package"

\* C22: once the swap step has completed, the swap provider was asked for every
\* pool that holds at least one requirement with tokenIn different from tokenOut
\* (ETH to WETH and WETH to ETH included): such a pool either failed at the
\* provider or contributed its swap execution, and no other pool did
C22_DifferingPoolsAreSwapped ==
    SwapStepCompleted =>
        /\ failedPools \subseteq DifferingPools
        /\ successfulSwapExecutions = SwapExecutionsOf(DifferingPools \ failedPools)

C22_Witness ==
    /\ SwapStepCompleted
    /\ \E k \in 1..Len(swapDetails) :
          /\ isWETH(swapDetails[k].tokenIn) /\ isETH(swapDetails[k].tokenOut)
          /\ \E j \in 1..Len(swapDetails) :
                isWETH(swapDetails[j].tokenIn) /\ isWETH(swapDetails[j].tokenOut)
    /\ Len(successfulSwapExecutions) = 1

\* C23: the swap requirements aggregated into one pool all have the same tokenIn
\* and the same tokenOut, so that the tokens read from the first requirement of
\* a pool are those of every requirement of the pool
C23_PoolTokensUniform ==
    call = "listings" =>
        LET pools == aggregatedSwapDetails(swapDetails)
        IN \A p \in 1..Len(pools) : \A k \in Range(pools[p]) :
              /\ swapDetails[k].tokenIn = swapDetails[pools[p][1]].tokenIn
              /\ swapDetails[k].tokenOut = swapDetails[pools[p][1]].tokenOut

\* The kinds whose orders are fetched in concurrent branches of one join
ConcurrentKinds == PartialKinds \cup {"x2y2"}

\* The orders of the request fetched by the branches of the join over `kind`
\* (the join over X2Y2 orders comes after the Blur step and leaves out what that
\* step filled)
Branches(kind) ==
    {i \in 1..Len(request) : request[i].kind = kind /\ (kind = "x2y2" => ~BlurCovered(i))}

\* A join over `kind` has several branches, one whose fetch fails and one whose
\* fetch succeeds
OneBranchFails(kind) ==
    /\ call = "listings"
    /\ Cardinality(Branches(kind)) >= 2
    /\ \E i, j \in Branches(kind) : ~fetchOk[i] /\ fetchOk[j]

\* Has the branch of the order at position i resolved it
Resolved(i) ==
    request[i].kind \in PartialKinds => details[i].kind = FullKind(request[i].kind)

\* C24 as stated: when one of several concurrent fetches fails, the join still
\* completes, the orders of the other branches are resolved and filled, and
\* only the order of the failing branch is left unfilled
C24_SiblingsSurvive ==
    \A kind \in ConcurrentKinds :
        (pc = "done" /\ OneBranchFails(kind) /\ ~MixedNoRouterBatch /\ failedPools = {}) =>
            /\ result = "returned"
            /\ \A i \in Branches(kind) :
                  IF fetchOk[i]
                  THEN Resolved(i) /\ (NoFailureOfItsOwn(i) => ret.success[i])
                  ELSE ~ret.success[i]

\* C24 amended: a failing fetch of a partial order makes the call throw unless
\* partial mode is on; otherwise the failure alone does not end the call (it
\* returns when every order is of a kind the router handles, no blur.io listing
\* is left and no swap and no fetch outside the join fails); whenever the call returns, every branch has run: the
\* orders whose fetch succeeded are resolved and filled, the order of a failing
\* branch is left unresolved and is filled by nothing but the Blur step
C24_SiblingsSurviveInPartialMode ==
    \A kind \in ConcurrentKinds :
        (pc = "done" /\ OneBranchFails(kind)) =>
            /\ (kind \in PartialKinds /\ ~options.partial) => result = "thrown"
            /\ ( /\ kind \in PartialKinds => options.partial
                 /\ \A j \in 1..Len(request) : j \notin Branches(kind) => fetchOk[j]
                 /\ \A j \in 1..Len(request) :
                       request[j].source = "blur.io" => BlurCovered(j)
                 /\ ~MixedNoRouterBatch /\ failedPools = {} ) => result = "returned"
            /\ result = "returned" =>
                  \A i \in Branches(kind) :
                      IF fetchOk[i]
                      THEN Resolved(i) /\ (NoFailureOfItsOwn(i) => ret.success[i])
                      ELSE /\ details[i].kind = request[i].kind
                           /\ ret.success[i] => BlurCovered(i)
                           /\ \A t \in 1..Len(ret.txs) :
                                 i \in ret.txs[t].fills => ret.txs[t].kind = "blur"

\* C24 witness: a call returned with one partial order resolved and filled next
\* to a partial order of the same kind whose fetch failed
C24_Witness ==
    /\ result = "returned"
    /\ OneBranchFails("seaport-partial")
    /\ \E i, j \in Branches("seaport-partial") :
          /\ ~fetchOk[i] /\ ~ret.success[i]
          /\ fetchOk[j] /\ details[j].kind = "seaport" /\ ret.success[j]

\* The entries of the Blur answer whose path holds a blur.io listing of the batch
AcceptedEntries ==
    SelectSeq(blurResponse.calldata,
              LAMBDA path : \E j \in Range(path) :
                  j \in Range(blurCompatibleListings(details)) /\ details[j].source = "blur.io")

\* The Blur-compatible listings whose token occurs in `path`
ListingsInPath(path) == Range(path) \cap Range(blurCompatibleListings(details))

\* The Blur step has just run: `succ` and `ts` are the success array and the
\* transactions it leaves
BlurStepLeaves(succ, ts) ==
    /\ \A i \in 1..Len(request) :
          succ[i] <=> \E e \in 1..Len(AcceptedEntries) : i \in ListingsInPath(AcceptedEntries[e])
    /\ Len(ts) = Len(AcceptedEntries)
    /\ \A e \in 1..Len(ts) :
          ts[e].kind = "blur" /\ ts[e].fills = ListingsInPath(AcceptedEntries[e])

SeaportVersions == {"seaport", "seaport-v1.4"}

\* Are the orders at the positions `which` all Seaport orders of one version in
\* the buy-in currency, with one conduit key and no fee of their own, with no
\* global fee, no forceRouter and no relayer set
DirectlyFillable(which) ==
    /\ \E kind \in SeaportVersions : \A i \in which :
          /\ details[i].kind = kind
          /\ details[i].currency = buyInCurrency
          /\ \A j \in which : details[j].conduitKey = details[i].conduitKey
          /\ details[i].fees = <<>>
    /\ options.globalFees = <<>>
    /\ ~options.forceRouter
    /\ options.relayer = "none"

\* The orders the Blur step left unfilled
RemainingUnfilled == {i \in 1..Len(details) : ~success[i]}

\* The call has passed the choice between the two paths
DirectTaken ==
    ListingsReturned /\ DirectlyFilled(ret) /\ Len(success) = Len(request) /\ executions = <<>>

GeneralTaken == call = "listings" /\ pc = "build"

\* C26 as stated: the direct Seaport fill is taken exactly when the orders still
\* unfilled are directly fillable, the general router path otherwise
C26_DirectIffRemainingFillable ==
    /\ DirectTaken => DirectlyFillable(RemainingUnfilled)
    /\ GeneralTaken => ~DirectlyFillable(RemainingUnfilled)

\* The kinds the general path of fillListingsTx handles
RouterListingKinds ==
    {"element", "foundation", "looks-rare", "seaport", "seaport-v1.4", "sudoswap", "x2y2",
     "zeroex-v4", "zora", "nftx", "rarible"}

\* The occurrences of the order at position i in the partitions `parts`
PartitionsHolding(parts, i) ==
    {<<p, k>> \in (1..Len(parts)) \X (1..Len(details)) :
        k <= Len(parts[p].members) /\ parts[p].members[k] = i}

\* Do the protocol and, for the Seaport kinds, the currency of the partition
\* agree with those of the order
PartitionFits(part, order) ==
    /\ part.name = PartitionName(order)
    /\ order.kind \in SeaportVersions => part.currency = order.currency

\* C27: when the general path splits the listings, every listing not yet filled
\* and of a kind the router handles is in exactly one partition, that of its
\* protocol (and currency, for Seaport), recorded under its position in the
\* details array; every other listing is in no partition; no two partitions
\* are for the same protocol and currency
C27_PartitionsCoverUnfilled ==
    GeneralTaken =>
        LET parts == SplitListings(details, success) IN
        /\ \A i \in 1..Len(details) :
              LET holding == PartitionsHolding(parts, i) IN
              IF ~success[i] /\ details[i].kind \in RouterListingKinds
              THEN /\ Cardinality(holding) = 1
                   /\ \A h \in holding : PartitionFits(parts[h[1]], details[i])
              ELSE holding = {}
        /\ \A p \in 1..Len(parts) :
              /\ Range(parts[p].members) \subseteq 1..Len(details)
              /\ parts[p].members # <<>>
        /\ \A p, q \in 1..Len(parts) :
              (parts[p].name = parts[q].name /\ parts[p].currency = parts[q].currency) => p = q

\* C27 witness: the general path splits a batch in which the Blur step filled
\* one listing and left one of a kind the router handles
C27_Witness ==
    /\ GeneralTaken
    /\ \E i, j \in 1..Len(details) :
          /\ success[i] /\ details[i].kind \in RouterListingKinds
          /\ ~success[j] /\ PartitionsHolding(SplitListings(details, success), j) # {}

\* The fill fragments have been built
FragmentsBuilt == call = "listings" /\ pc \in {"swap", "package"}

\* C28: the amount of every fill fragment is the sum of the prices of exactly
\* the orders encoded in it, its fees are those of these orders, and its
\* required output amount is that sum plus these fees: an order dropped from
\* the partition contributes neither price nor fee
C28_AmountOfEncodedOrders ==
    FragmentsBuilt =>
        \A k \in 1..Len(executions) :
            /\ executions[k].amount = Price(details, executions[k].orders)
            /\ executions[k].fees = getFees(details, options, executions[k].orders)
            /\ \A j \in 1..Len(swapDetails) :
                  swapDetails[j].executionIndex = k =>
                      swapDetails[j].tokenOutAmount =
                          executions[k].amount + FeeAmount(executions[k].fees)

\* The entries of a fee list with a positive amount and a recipient other than
\* the null address
Counted(fees) == SelectSeq(fees, LAMBDA fee : fee.amount > 0 /\ fee.recipient # AddressZero)

\* The fee list due for a fragment filling `orders`: the counted global fees,
\* prorated, then the counted fees of the orders
FeesDue(orders) ==
    [g \in 1..Len(Counted(options.globalFees)) |->
        Fee(Counted(options.globalFees)[g].recipient,
            (Counted(options.globalFees)[g].amount * Len(orders)) \div Len(details))]
    \o Flatten([k \in 1..Len(orders) |-> Counted(details[orders[k]].fees)])

ValuesOf(execs) == [k \in 1..Len(execs) |-> execs[k].value]

\* Does the fragment e depend on a swap that failed
DroppedFragment(e) ==
    \E j \in 1..Len(swapDetails) :
        DependsOnFailedSwap(j) /\ Range(swapDetails[j].details) = Range(e.orders)

\* C30: the value of the returned router transaction is the sum of the values
\* of the fragments it executes, which are the generated swaps followed by the
\* fills that depend on no failed swap
C30_ValueIsSumOfFragments ==
    ListingsReturned =>
        \A t \in 1..Len(ret.txs) :
            ret.txs[t].kind = "router" =>
                /\ ret.txs[t].executions = executions
                /\ ret.txs[t].value = SumSeq(ValuesOf(SwapsOf(executions)))
                                         + SumSeq(ValuesOf(FillsOf(executions)))
                /\ SwapsOf(executions) = successfulSwapExecutions
                /\ \A k \in 1..Len(executions) :
                      ~executions[k].swap => ~DroppedFragment(executions[k])

\* C30 witness: the router transaction pays for a swap and for a fill, and a
\* fill that depended on a failed swap was dropped
C30_Witness ==
    /\ ListingsReturned
    /\ failedPools # {}
    /\ \E t \in 1..Len(ret.txs) :
          /\ ret.txs[t].kind = "router"
          /\ \E e \in Range(ret.txs[t].executions) : e.swap /\ e.value > 0
          /\ \E e \in Range(ret.txs[t].executions) : ~e.swap

\* fillBidsTx is in its general path, past the approvals
BidsGeneralPath == call = "bids" /\ Len(request) > 0 /\ Len(success) = Len(request)

\* The positions marked successful, in input order
SuccessfulPositions == SortedSeq({i \in 1..Len(success) : success[i]})

\* C31: at every point of the general path of fillBidsTx there is one fragment
\* per bid marked successful and none for any other bid, and the fragments are
\* in input order, each through the module of its bid
C31_OneFragmentPerHandledBid ==
    BidsGeneralPath =>
        /\ Len(executions) = Len(SuccessfulPositions)
        /\ \A k \in 1..Len(executions) :
              /\ executions[k].orders = <<SuccessfulPositions[k]>>
              /\ executions[k].module = BidModule(details[SuccessfulPositions[k]].kind)

\* C31 witness: the loop has handled a bid after leaving an earlier bid unhandled
C31_Witness ==
    /\ BidsGeneralPath
    /\ \E i, j \in 1..Len(success) : i < j /\ ~success[i] /\ success[j] /\ cursor > j
    /\ Len(executions) = 1

\* The batch is one order of a protocol without a router module, and neither a
\* relayer nor a global fee is set
SingleNoRouterListing ==
    /\ call = "listings"
    /\ Len(request) = 1
    /\ request[1].kind \in NoRouterListingKinds
    /\ options.relayer = "none"
    /\ options.globalFees = <<>>

\* C32: a batch of exactly one order of a protocol without a router module,
\* with no relayer and no global fees, is filled by the exchange of the
\* protocol: one transaction for the first order, no permits, success = [true],
\* and no router fragment
C32_SingleNoRouterOrderFilledDirectly ==
    (SingleNoRouterListing /\ pc # "start") =>
        /\ result = "returned"
        /\ ret.success = <<TRUE>>
        /\ Len(ret.txs) = 1
        /\ ret.txs[1].to = "exchange"
        /\ ret.txs[1].orderIndexes = <<1>>
        /\ ret.txs[1].permits = <<>>
        /\ ret.txs[1].executions = <<>>
        /\ executions = <<>>

\* C32 witness: such a batch, priced in an ERC20, was returned with the approval
\* of the exchange
C32_Witness ==
    /\ SingleNoRouterListing
    /\ result = "returned"
    /\ ~isETH(request[1].currency)
    /\ Len(ret.txs[1].approvals) = 1

\* C33: with partial mode off, whenever fillListingsTx returns, every order is
\* marked successful
C33_AllOrNothing ==
    (ListingsReturned /\ ~options.partial) =>
        \A i \in 1..Len(ret.success) : ret.success[i]

\* The transactions the Blur step emitted (those it left in txs)
BlurTransactions(ts) == SelectSeq(ts, LAMBDA t : t.kind = "blur")

\* C34: every transaction the Blur step emitted is in the bundle the call
\* returns, and no listing the Blur step marked is filled again by a transaction
\* of a later step
C34_BlurKeptAndNotRefilled ==
    ListingsReturned =>
        /\ BlurTransactions(ret.txs) = BlurTransactions(txs)
        /\ \A i \in 1..Len(request) :
              BlurCovered(i) =>
                  \A t \in 1..Len(ret.txs) :
                      i \in ret.txs[t].fills => ret.txs[t].kind = "blur"

\* C35: on every return of fillListingsTx the order indexes listed by the
\* returned transactions are exactly the positions marked successful
C35_OrderIndexesAreTheSuccessful ==
    ListingsReturned =>
        ReportedOrderIndexes(ret) = {i \in 1..Len(ret.success) : ret.success[i]}

\* What the worker found for the job of its last run
RankOfCollection(job) ==
    IF db.collections[job.tokenId] = null THEN null
    ELSE db.collections[job.tokenId].day30Rank

\* C36: a run of the worker adds a job for the same (contract, tokenId) exactly
\* when the day-30 rank of the collection of the token is between 1 and 1000, the
\* token update data has a non-null field and updateActivitiesTokenMetadata
\* returned true; in every other case the run adds no job
C36_FollowUpIffRankedAndUpdated ==
    lastRun.runs > 0 =>
        LET job == lastRun.job
            rank == RankOfCollection(job)
            due == /\ rank # null /\ rank.rank >= 1 /\ rank.rank <= 1000
                   /\ ~isEmpty(lastRun.data)
                   /\ lastRun.updated /\ lastRun.keepGoing
        IN  /\ due => /\ Len(queue) = Len(lastRun.waiting) + 1
                      /\ queue[Len(queue)].contract = job.contract
                      /\ queue[Len(queue)].tokenId = job.tokenId
            /\ ~due => queue = lastRun.waiting

\* The event being handled rewrites a cache entry
Rewrites(payload) == payload.op = "update" /\ payload.after # null

\* C37: the handler of the collections change events never creates a cache
\* entry: an update event rewrites collectionCache:v1:<id> only if the key
\* exists, and insert events, delete events and events without an after-image
\* leave the cache as it was
C37_HandlerNeverCreatesEntry ==
    [][kafka # <<>> =>
          LET payload == Head(kafka)
          IN  /\ \A k \in RedisKeys : redis[k] = null => redis'[k] = null
              /\ ~Rewrites(payload) => redis' = redis
              /\ Rewrites(payload) =>
                     \A k \in RedisKeys :
                         redis'[k] = IF k = CacheKey(payload.after.id) /\ redis[k] # null
                                     THEN stringify(payload.after)
                                     ELSE redis[k]]_vars

\* An update event was handled for each collection: the entry that existed is
\* rewritten and the entry that did not exist is still missing
C37_Witness ==
    /\ Len(websocketEvents) = 2
    /\ \A i \in 1..2 : websocketEvents[i].eventInfo.trigger = "update"
    /\ redis[CacheKey("a")] = stringify([id |-> "a", name |-> "new"])
    /\ redis[CacheKey("b")] = null
    /\ websocketEvents[2].eventInfo.after.id = "b"

\* The parameters of the filter f hold what the id of f gave them
HoldsItsId(f, params) ==
    CASE f.kind = "range" -> /\ params[f.contract] = toBuffer(split(f.id).contract)
                             /\ params[f.startTokenId] = split(f.id).startTokenId
                             /\ params[f.endTokenId] = split(f.id).endTokenId
      [] f.kind = "list" -> params[f.collection] = f.id
      [] f.kind = "contract" -> params[f.contract] = toBuffer(f.id)

\* C38: when the user-tokens handler sends its base query, every collection
\* filter it generated refers to query parameters that still hold the id the
\* filter was generated for: no later addCollectionToFilter call has overwritten
\* a parameter of an earlier filter
C38_FiltersKeepTheirIds ==
    (sql.built /\ sql.sent) =>
        /\ \A k \in 1..Len(sql.nftBalanceCollectionFilters) :
               HoldsItsId(sql.nftBalanceCollectionFilters[k], sql.params)
        /\ \A k \in 1..Len(sql.tokensCollectionFilters) :
               HoldsItsId(sql.tokensCollectionFilters[k], sql.params)

\* The tokens answered on the pages read so far
TokensRead == Flatten(pages) \o response.tokens

\* C39: a client that follows the continuations of the user-tokens endpoint is
\* never answered the same token row twice, and when it is answered a null
\* continuation it has been answered every row of the user, also when several
\* rows were acquired within the same whole second
C39_PagingReturnsEachRowOnce ==
    response.answered =>
        /\ \A i, j \in DOMAIN TokensRead :
               i # j => TokensRead[i].token # TokensRead[j].token
        /\ response.continuation = null =>
               \A k \in DOMAIN balances :
                   \E i \in DOMAIN TokensRead :
                       TokensRead[i].token = UserToken(query, balances[k]).token

====
